---- MODULE Spec2Model ----
(***************************************************************************)
(* Sale lifecycle and delivery queue of breakfast-backend.                 *)
(*                                                                         *)
(* The persisted state is the three tables sale (with its sale_item rows),  *)
(* sale_delivery_step and customer.credit.  Every HTTP handler of           *)
(* sales/router.py is one action of Spec: the handler's reads, its writes,  *)
(* its commit and the auto-completion check it calls afterwards.  SpecConc  *)
(* runs the delivery handlers as requests that interleave at their commits. *)
(***************************************************************************)
EXTENDS Integers, Sequences, FiniteSets, TLC

\* ---------------------------------------------------------------- bounds
MaxCredit == 2          \* initial customer credit ranges over 0..MaxCredit
MaxSeqBase == 500       \* reorder is explored while max(sequence_order) <= MaxSeqBase
MaxTarget == 1          \* the sequences a reorder request asks for range over 0..MaxTarget
MaxTasks == 1           \* notification tasks scheduled and not yet run

\* ------------------------------------------------------------- universes
Sales == {1}
Customers == {1, 2}
CreatorUsers == {1}     \* the account that creates the sales and owns the customers

Null == <<>>
Some(v) == <<v>>

\* customers.models.Customer.name, compared as Python compares str; customer 2
\* sorts before customer 1
CustomerName(c) == IF c = 1 THEN 2 ELSE 1

SaleStatuses == {"draft", "closed", "in_progress", "completed"}

Item(c, p, q) == [customer_id |-> c, sell_price_at_sale |-> p, quantity |-> q]

\* the customer_sales payloads a sale is created with (sell_price > 0, quantity > 0)
ItemLists ==
    { <<>>,
      << Item(1, 1, 1) >>,
      << Item(1, 2, 1), Item(2, 1, 1), Item(2, 1, 2) >> }

\* sale.date as (year, month, day); the date every sale is created for
SaleDate == <<2024, 12, 24>>

NoSale == [user_id |-> 0, status |-> "none", items |-> <<>>, date |-> <<>>]

VARIABLES
    sales,      \* table sale: sale id -> row (NoSale when no such row)
    steps,      \* table sale_delivery_step: a set of rows
    credit,     \* column customer.credit
    recorded,   \* history: the credit_applied the last complete of a step computed,
                \* set on the step object and reported; 0 once the step is reset
    last,       \* the last request that returned and its outcome
    reqs,       \* requests in flight (SpecConc): their position and locals
    push,       \* push notifications (SpecNotify): the call that schedules, the
                \* scheduled tasks and the active devices
    stream      \* a customer's status stream (SpecStream): its generator's
                \* position and locals, the client, and the frames sent

vars == <<sales, steps, credit, recorded, last, reqs, push, stream>>

\* ------------------------------------------------------------ the store
Db == [sales |-> sales, steps |-> steps, credit |-> credit]

Step(s, c, seq, nxt) ==
    [sale_id |-> s, customer_id |-> c, sequence_order |-> seq,
     status |-> "pending", is_next |-> nxt, completed_at |-> Null,
     amount_collected |-> Null, skip_reason |-> Null]

StepsOf(db, s) == {st \in db.steps : st.sale_id = s}
PendingOf(db, s) == {st \in StepsOf(db, s) : st.status = "pending"}
StepFor(db, s, c) == {st \in StepsOf(db, s) : st.customer_id = c}

\* select(Sale).where(Sale.id == sale_id, Sale.user_id == user_id)
SaleOwned(db, s, u) == db.sales[s].status # "none" /\ db.sales[s].user_id = u

\* variant: the table without the unique_sale_sequence constraint
UniqueCustomerOnly(rows) ==
    \A a, b \in rows :
        (a # b /\ a.sale_id = b.sale_id) => a.customer_id # b.customer_id

\* UniqueConstraint('sale_id', 'customer_id') and ('sale_id', 'sequence_order')
UniqueOK(rows) ==
    \A a, b \in rows :
        (a # b /\ a.sale_id = b.sale_id) =>
            /\ a.customer_id # b.customer_id
            /\ a.sequence_order # b.sequence_order

Result(db, outcome) == [db |-> db, outcome |-> outcome]

Min(a, b) == IF a <= b THEN a ELSE b

\* ------------------------------------------------------- sale lifecycle
\* sales/service.py SaleService.create: a Sale row (status defaults to "draft",
\* models.py:10) and its SaleItem rows
create_sale(db, s, u, itemList) ==
    Result([db EXCEPT !.sales[s] =
                [user_id |-> u, status |-> "draft", items |-> itemList,
                 date |-> SaleDate]], "ok")

\* variant: a table that lets a completed sale be reopened
transitions_with_reopen(S) ==
    CASE S = "draft" -> {"closed"}
      [] S = "closed" -> {"draft", "in_progress"}
      [] S = "in_progress" -> {"completed"}
      [] OTHER -> {"in_progress"}

\* valid_transitions = {"draft": ["closed"], "closed": ["draft", "in_progress"],
\*                      "in_progress": ["completed"], "completed": []}
valid_transitions(S) ==
    CASE S = "draft" -> {"closed"}
      [] S = "closed" -> {"draft", "in_progress"}
      [] S = "in_progress" -> {"completed"}
      [] OTHER -> {}

\* the guard of router.py:189: the request is rejected
TransitionRejected(S, T) == T \notin valid_transitions(S) /\ T # S

patch_sale(db, s, T, u) ==
    IF ~SaleOwned(db, s, u) THEN Result(db, "sale_not_found")
    ELSE IF TransitionRejected(db.sales[s].status, T)
         THEN Result(db, "invalid_transition")
         ELSE Result([db EXCEPT !.sales[s].status = T], "ok")

\* ------------------------------------------------------- delivery queue
\* customer_map: the distinct customers of the items, in first-appearance order
RECURSIVE CustomerMap(_, _)
CustomerMap(items, acc) ==
    IF items = <<>> THEN acc
    ELSE LET c == Head(items).customer_id
         IN  CustomerMap(Tail(items),
                 IF \E i \in 1..Len(acc) : acc[i] = c THEN acc ELSE Append(acc, c))

\* variant: sorting by customer id (key=lambda x: x[0])
SortKeyId(c) == c

\* the sort key of sorted(customer_map.items(), key=lambda x: x[1])
SortKey(c) == CustomerName(c)

\* sorted() is stable: insert x after every element whose key is <= its key
RECURSIVE InsertSorted(_, _)
InsertSorted(q, x) ==
    IF q = <<>> THEN <<x>>
    ELSE IF SortKey(Head(q)) <= SortKey(x)
         THEN <<Head(q)>> \o InsertSorted(Tail(q), x)
         ELSE <<x>> \o q

RECURSIVE SortedCustomers(_, _)
SortedCustomers(q, acc) ==
    IF q = <<>> THEN acc
    ELSE SortedCustomers(Tail(q), InsertSorted(acc, Head(q)))

\* variant: max(existing_steps, key=lambda s: s.sequence_order)
LastStep(rows) ==
    CHOOSE st \in rows : \A o \in rows : o.sequence_order <= st.sequence_order

\* min(existing_steps, key=lambda s: s.sequence_order)
FirstStep(rows) ==
    CHOOSE st \in rows : \A o \in rows : st.sequence_order <= o.sequence_order

\* the steps start_delivery adds when none exist: enumerate(sorted_customers, start=1)
NewSteps(s, sorted) ==
    {Step(s, sorted[i], i, i = 1) : i \in 1..Len(sorted)}

\* variant: the select without Sale.status == "closed"
StartAllowedAnyStatus(db, s, u) == SaleOwned(db, s, u)

\* .where(Sale.id == sale_id, Sale.user_id == user_id, Sale.status == "closed")
StartAllowed(db, s, u) == SaleOwned(db, s, u) /\ db.sales[s].status = "closed"

start_delivery(db, s, u) ==
    IF ~StartAllowed(db, s, u)
    THEN Result(db, "not_closed")
    ELSE LET existing == StepsOf(db, s)
             started == [db.sales EXCEPT ![s].status = "in_progress"]
         IN  IF existing # {}
             THEN LET first == FirstStep(existing)
                  IN  Result([db EXCEPT !.sales = started,
                                  !.steps = (db.steps \ {first})
                                      \cup {[first EXCEPT !.is_next = TRUE]}], "ok")
             ELSE LET sorted == SortedCustomers(CustomerMap(db.sales[s].items, <<>>), <<>>)
                  IN  Result([db EXCEPT !.sales = started,
                                  !.steps = db.steps \cup NewSteps(s, sorted)], "ok")

\* only the first item of the route is added
InsertFirstOnly(rows, s, route) ==
    [ok |-> TRUE,
     rows |-> IF route = <<>> THEN rows
              ELSE rows \cup {[sale_id |-> s, customer_id |-> Head(route).customer_id,
                               sequence_order |-> Head(route).sequence,
                               status |-> "pending", is_next |-> FALSE,
                               completed_at |-> Null, amount_collected |-> Null,
                               skip_reason |-> Null]}]

\* db.add(SaleDeliveryStep(...)) for each item of the route, flushed as INSERTs:
\* a row that breaks a unique constraint raises IntegrityError
RECURSIVE InsertRoute(_, _, _)
InsertRoute(rows, s, route) ==
    IF route = <<>> THEN [ok |-> TRUE, rows |-> rows]
    ELSE LET new == Step(s, Head(route).customer_id, Head(route).sequence, FALSE)
         IN  IF new \in rows \/ ~UniqueOK(rows \cup {new})
             THEN [ok |-> FALSE, rows |-> rows]
             ELSE InsertRoute(rows \cup {new}, s, Tail(route))

\* select(func.max(sequence_order)) ... .scalar() or 0
MaxSeq(rows) ==
    IF rows = {} THEN 0
    ELSE LET st == CHOOSE x \in rows : \A o \in rows : o.sequence_order <= x.sequence_order
         IN  st.sequence_order

\* Step 1: UPDATE ... SET sequence_order = sequence_order + offset WHERE sale_id = s
offset_all_sequences(rows, s, offset) ==
    {IF st.sale_id = s
        THEN [st EXCEPT !.sequence_order = st.sequence_order + offset]
        ELSE st : st \in rows}

\* UPDATE ... SET sequence_order = seq WHERE sale_id = s AND customer_id = c
update_sequence(rows, s, c, seq) ==
    {IF st.sale_id = s /\ st.customer_id = c
        THEN [st EXCEPT !.sequence_order = seq]
        ELSE st : st \in rows}

\* Step 2: one UPDATE per item of the route, each checked against the unique
\* constraints when it executes
RECURSIVE ApplyRoute(_, _, _)
ApplyRoute(rows, s, route) ==
    IF route = <<>> THEN [ok |-> TRUE, rows |-> rows]
    ELSE LET next == update_sequence(rows, s, Head(route).customer_id,
                                     Head(route).sequence)
         IN  IF ~UniqueOK(next)
             THEN [ok |-> FALSE, rows |-> rows]
             ELSE ApplyRoute(next, s, Tail(route))

\* variant: the route of a completed delivery can still be changed
RouteNeverLocked(db, s) == FALSE

\* if sale.status == "completed": raise ValueError("Cannot modify route ...")
RouteLocked(db, s) == db.sales[s].status = "completed"

update_delivery_route(db, s, route, u) ==
    IF ~SaleOwned(db, s, u) THEN Result(db, "sale_not_found")
    ELSE IF RouteLocked(db, s) THEN Result(db, "route_completed")
    ELSE IF StepsOf(db, s) = {}
         THEN LET ins == InsertRoute(db.steps, s, route)
              IN  IF ins.ok THEN Result([db EXCEPT !.steps = ins.rows], "ok")
                  ELSE Result(db, "integrity_error")
         ELSE LET offset == MaxSeq(StepsOf(db, s)) + 1000
                  shifted == offset_all_sequences(db.steps, s, offset)
                  upd == ApplyRoute(shifted, s, route)
              IN  IF UniqueOK(shifted) /\ upd.ok
                  THEN Result([db EXCEPT !.steps = upd.rows], "ok")
                  ELSE Result(db, "integrity_error")

\* variant: only the second UPDATE, the earlier selection is not cleared
SelectWithoutClearing(rows, s, c) ==
    {IF st.sale_id = s /\ st.customer_id = c
        THEN [st EXCEPT !.is_next = TRUE]
        ELSE st : st \in rows}

\* UPDATE ... SET is_next = False WHERE sale_id = s, then
\* UPDATE ... SET is_next = True WHERE sale_id = s AND customer_id = c
SelectOnly(rows, s, c) ==
    {IF st.sale_id = s
        THEN [st EXCEPT !.is_next = (st.customer_id = c)]
        ELSE st : st \in rows}

set_next_delivery(db, s, c, u) ==
    IF ~SaleOwned(db, s, u) THEN Result(db, "sale_not_found")
    ELSE IF db.sales[s].status # "in_progress" THEN Result(db, "not_in_progress")
    ELSE IF StepFor(db, s, c) = {} THEN Result(db, "step_not_found")
    ELSE IF \E st \in StepFor(db, s, c) : st.status # "pending"
         THEN Result(db, "step_not_pending")
         ELSE Result([db EXCEPT !.steps = SelectOnly(db.steps, s, c)], "ok")

\* variant: the check completes the sale only when it finds every step completed
complete_when_all_completed(db, s) ==
    IF (\A st \in StepsOf(db, s) : st.status = "completed")
          /\ db.sales[s].status # "none"
    THEN [db EXCEPT !.sales[s].status = "completed"]
    ELSE db

\* variant: the sale is completed without looking for pending steps
complete_unconditionally(db, s) ==
    IF db.sales[s].status # "none"
    THEN [db EXCEPT !.sales[s].status = "completed"]
    ELSE db

\* if not pending: UPDATE sale SET status = 'completed' WHERE id = s
check_and_complete_sale(db, s) ==
    IF PendingOf(db, s) = {} /\ db.sales[s].status # "none"
    THEN [db EXCEPT !.sales[s].status = "completed"]
    ELSE db

\* sum(item.sell_price_at_sale * item.quantity for item in items) over the
\* customer's items of the sale
RECURSIVE OrderTotal(_, _)
OrderTotal(items, c) ==
    IF items = <<>> THEN 0
    ELSE (IF Head(items).customer_id = c
             THEN Head(items).sell_price_at_sale * Head(items).quantity
             ELSE 0) + OrderTotal(Tail(items), c)

\* variant: the whole order total is taken from the credit
CreditAppliedTotal(cr, total) == IF cr > 0 THEN total ELSE 0

\* credit_applied = 0.0; if customer and customer.credit > 0: min(credit, total)
CreditApplied(cr, total) == IF cr > 0 THEN Min(cr, total) ELSE 0

\* the step as complete_delivery writes it; credit_applied is no column of
\* sale_delivery_step (models.py:31-50), so it is not in the row
CompletedStep(st, amount) ==
    [st EXCEPT !.status = "completed", !.is_next = FALSE,
               !.completed_at = Some("now"), !.amount_collected = Some(amount)]

complete_delivery(db, s, c, amount, u) ==
    IF ~SaleOwned(db, s, u) THEN Result(db, "sale_not_found")
    ELSE IF ~\E st \in StepFor(db, s, c) : st.status = "pending"
         THEN Result(db, "step_not_pending_or_missing")
         ELSE LET st == CHOOSE x \in StepFor(db, s, c) : x.status = "pending"
                  applied == CreditApplied(db.credit[c], OrderTotal(db.sales[s].items, c))
                  written == [db EXCEPT
                      !.credit[c] = db.credit[c] - applied,
                      !.steps = (db.steps \ {st}) \cup {CompletedStep(st, amount)}]
              IN  [db |-> check_and_complete_sale(written, s), outcome |-> "ok",
                   credit_applied |-> applied]

\* UPDATE ... SET status = 'skipped', is_next = False, skip_reason = reason
\* WHERE sale_id = s AND customer_id = c AND status = 'pending'
SkippedStep(st, reason) ==
    [st EXCEPT !.status = "skipped", !.is_next = FALSE, !.skip_reason = Some(reason)]

skip_delivery(db, s, c, reason, u) ==
    IF ~SaleOwned(db, s, u) THEN Result(db, "sale_not_found")
    ELSE IF ~\E st \in StepFor(db, s, c) : st.status = "pending"
         THEN Result(db, "step_not_pending_or_missing")
         ELSE LET st == CHOOSE x \in StepFor(db, s, c) : x.status = "pending"
                  written == [db EXCEPT
                      !.steps = (db.steps \ {st}) \cup {SkippedStep(st, reason)}]
              IN  Result(check_and_complete_sale(written, s), "ok")

\* step.credit_applied of a step loaded from the store: the attribute is no
\* mapped column, so a freshly loaded instance does not have it
HasCreditApplied(st) == FALSE

PendingAgain(st) ==
    [st EXCEPT !.status = "pending", !.is_next = FALSE, !.completed_at = Null,
               !.amount_collected = Null, !.skip_reason = Null]

\* UPDATE sale SET status = 'in_progress' WHERE id = s AND status = 'completed'
ReopenSale(db, s) ==
    IF db.sales[s].status = "completed"
    THEN [db EXCEPT !.sales[s].status = "in_progress"]
    ELSE db

reset_delivery_to_pending(db, s, c, u) ==
    IF ~SaleOwned(db, s, u) THEN Result(db, "sale_not_found")
    ELSE IF StepFor(db, s, c) = {} THEN Result(db, "step_not_found")
    ELSE LET st == CHOOSE x \in StepFor(db, s, c) : TRUE
         IN  IF st.status = "completed" /\ ~HasCreditApplied(st)
             THEN Result(db, "attribute_error")
             ELSE Result(ReopenSale([db EXCEPT
                      !.steps = (db.steps \ {st}) \cup {PendingAgain(st)}], s), "ok")

\* ------------------------------------------------------------- requests
\* the route payloads of PATCH /sales/{id}/deliveries: CustomerSequence is
\* {customer_id: int, sequence: int}, any integers
RoutePairs == [customer_id : Customers, sequence : 0..MaxTarget]
\* a request is explored with up to one pair per customer, in any order and with
\* repeated customers
Routes == UNION {[1..n -> RoutePairs] : n \in 0..Cardinality(Customers)}
Amounts == {1}
Reasons == {"not home"}

\* the requests that can be in flight at once, each with a session of its own
\* (core/database.py get_db)
Slots == {1, 2}

\* a request that has not been sent
Idle ==
    [pc |-> "idle", op |-> "none", sale |-> 0, customer |-> 0, amount |-> 0,
     step |-> Null, credit_read |-> 0, applied |-> 0, session |-> Null,
     outcome |-> "none"]

\* the HTTP status a handler's outcome is answered with: the status_code of the
\* route on success, the HTTPException its except clause raises for a
\* ValueError, 500 for an exception nothing catches
status_code(op, outcome) ==
    CASE outcome = "ok" ->
            (CASE op \in {"create", "start"} -> 201
               [] op = "delete" -> 204
               [] OTHER -> 200)
      [] outcome \in {"attribute_error", "integrity_error"} -> 500
      [] outcome \in {"invalid_transition", "invalid_date"} -> 400
      [] op \in {"start", "reorder", "order"} -> 400
      [] OTHER -> 404

Returned(op, outcome, detail) ==
    [op |-> op, outcome |-> outcome, detail |-> detail,
     code |-> status_code(op, outcome)]

\* the handler's transaction commits (or, on an error, is rolled back) and the
\* response goes out
Respond(r, op, detail) ==
    /\ sales' = r.db.sales
    /\ steps' = r.db.steps
    /\ credit' = r.db.credit
    /\ last' = Returned(op, r.outcome, detail)
    /\ UNCHANGED <<reqs, push, stream>>

\* the customers created with a credit (CustomerCreate.credit, ge=0); the others
\* are created with the default 0.0
CreditedCustomers == {1}

InitialCredits ==
    {f \in [Customers -> 0..MaxCredit] :
        \A c \in Customers \ CreditedCustomers : f[c] = 0}

\* no call made, no task scheduled, no device registered
NoCall == [op |-> "none", outcome |-> "none", note |-> Null]
NoPush == [call |-> NoCall, tasks |-> {}, devices |-> <<>>]

\* no stream requested
NoStream ==
    [kind |-> "none", pc |-> "none", token |-> "none", sale |-> 0,
     last_json |-> Null, connected |-> FALSE, sent |-> <<>>, raised |-> "none"]

NoneRecorded == [k \in Sales \X Customers |-> 0]

Init ==
    /\ sales = [s \in Sales |-> NoSale]
    /\ steps = {}
    /\ credit \in InitialCredits
    /\ recorded = NoneRecorded
    /\ last = Returned("none", "ok", <<>>)
    /\ reqs = [r \in Slots |-> Idle]
    /\ push = NoPush
    /\ stream = NoStream

\* POST /sales/
CreateSale(s, u, itemList) ==
    /\ sales[s] = NoSale
    /\ Respond(create_sale(Db, s, u, itemList), "create", <<>>)
    /\ UNCHANGED recorded

\* PATCH /sales/{sale_id} with a status
PatchSale(s, T, u) ==
    LET r == patch_sale(Db, s, T, u)
    IN  /\ Respond(r, "patch",
                   IF r.outcome = "invalid_transition"
                   THEN <<sales[s].status, T>> ELSE <<>>)
        /\ UNCHANGED recorded

\* POST /sales/{sale_id}/deliveries
StartDelivery(s, u) ==
    /\ Respond(start_delivery(Db, s, u), "start", <<>>)
    /\ UNCHANGED recorded

\* PATCH /sales/{sale_id}/deliveries
UpdateDeliveryRoute(s, route, u) ==
    /\ MaxSeq(StepsOf(Db, s)) <= MaxSeqBase
    /\ Respond(update_delivery_route(Db, s, route, u), "reorder", <<>>)
    /\ UNCHANGED recorded

\* PATCH /sales/{sale_id}/deliveries/customers/{customer_id} {"is_next": true}
SetNextDelivery(s, c, u) ==
    /\ Respond(set_next_delivery(Db, s, c, u), "selectNext", <<s, c>>)
    /\ UNCHANGED recorded

\* ... {"status": "completed", "amount_collected": amount}
CompleteDelivery(s, c, amount, u) ==
    LET r == complete_delivery(Db, s, c, amount, u)
    IN  /\ Respond(r, "complete", <<s, c>>)
        /\ recorded' = IF r.outcome = "ok"
                       THEN [recorded EXCEPT ![<<s, c>>] = r.credit_applied]
                       ELSE recorded

\* ... {"status": "skipped", "skip_reason": reason}
SkipDelivery(s, c, reason, u) ==
    /\ Respond(skip_delivery(Db, s, c, reason, u), "skip", <<s, c>>)
    /\ UNCHANGED recorded

\* ... {"status": "pending"}
ResetDeliveryToPending(s, c, u) ==
    LET r == reset_delivery_to_pending(Db, s, c, u)
    IN  /\ Respond(r, "reset", <<>>)
        /\ recorded' = IF r.outcome = "ok"
                       THEN [recorded EXCEPT ![<<s, c>>] = 0]
                       ELSE recorded

Next ==
    \/ \E s \in Sales, u \in CreatorUsers, il \in ItemLists : CreateSale(s, u, il)
    \/ \E s \in Sales, T \in SaleStatuses, u \in CreatorUsers : PatchSale(s, T, u)
    \/ \E s \in Sales, u \in CreatorUsers : StartDelivery(s, u)
    \/ \E s \in Sales, route \in Routes, u \in CreatorUsers :
            UpdateDeliveryRoute(s, route, u)
    \/ \E s \in Sales, c \in Customers, u \in CreatorUsers : SetNextDelivery(s, c, u)
    \/ \E s \in Sales, c \in Customers, a \in Amounts, u \in CreatorUsers :
            CompleteDelivery(s, c, a, u)
    \/ \E s \in Sales, c \in Customers, rs \in Reasons, u \in CreatorUsers :
            SkipDelivery(s, c, rs, u)
    \/ \E s \in Sales, c \in Customers, u \in CreatorUsers :
            ResetDeliveryToPending(s, c, u)

Spec == Init /\ [][Next]_vars

\* ------------------------------------------- requests that overlap in time
\* complete_delivery as the steps of one request: each action is the run of the
\* coroutine between two points where another request's statements can commit.
Answered(r, outcome) == [reqs[r] EXCEPT !.pc = "done", !.outcome = outcome]

\* crud_delivery.py:319-358: the selects of the sale, the pending step, the items
\* and the customer; the credit to apply is computed from what was read
CompleteRead(r, s, c, amount, u) ==
    /\ reqs[r].pc = "idle"
    /\ LET pend == {st \in StepFor(Db, s, c) : st.status = "pending"}
       IN  reqs' = [reqs EXCEPT ![r] =
              IF ~SaleOwned(Db, s, u) THEN Answered(r, "sale_not_found")
              ELSE IF pend = {} THEN Answered(r, "step_not_pending_or_missing")
              ELSE [pc |-> "write", op |-> "complete", sale |-> s, customer |-> c,
                    amount |-> amount,
                    step |-> Some(CHOOSE st \in pend : TRUE),
                    credit_read |-> credit[c],
                    applied |-> CreditApplied(credit[c], OrderTotal(sales[s].items, c)),
                    session |-> Null, outcome |-> "none"]]
    /\ UNCHANGED <<sales, steps, credit, recorded, last, push, stream>>

\* the row the flush of crud_delivery.py:360-366 leaves: UPDATE sale_delivery_step
\* SET <the attributes whose value changed since the load> WHERE id = <loaded id>
FlushedStep(cur, loaded, amount) ==
    [CompletedStep(cur, amount) EXCEPT
        !.is_next = IF loaded.is_next THEN FALSE ELSE cur.is_next]

\* crud_delivery.py:356-366: UPDATE customer SET credit = <the value computed in
\* the request> when it changed, the UPDATE of the step, and the commit
CompleteWrite(r) ==
    /\ reqs[r].pc = "write"
    /\ LET s == reqs[r].sale
           c == reqs[r].customer
           loaded == reqs[r].step[1]
           cur == CHOOSE st \in StepFor(Db, s, c) : TRUE
       IN  /\ steps' = (steps \ {cur}) \cup {FlushedStep(cur, loaded, reqs[r].amount)}
           /\ credit' = IF reqs[r].applied > 0
                           THEN [credit EXCEPT ![c] = reqs[r].credit_read - reqs[r].applied]
                           ELSE credit
           /\ recorded' = [recorded EXCEPT ![<<s, c>>] = reqs[r].applied]
    /\ reqs' = [reqs EXCEPT ![r].pc = "check"]
    /\ UNCHANGED <<sales, last, push, stream>>

\* crud_delivery.py:369-382: check_and_complete_sale, and the response
CompleteCheck(r) ==
    /\ reqs[r].pc = "check"
    /\ sales' = check_and_complete_sale(Db, reqs[r].sale).sales
    /\ reqs' = [reqs EXCEPT ![r] = Answered(r, "ok")]
    /\ UNCHANGED <<steps, credit, recorded, last, push, stream>>

NextConc ==
    \/ \E s \in Sales, u \in CreatorUsers, il \in ItemLists : CreateSale(s, u, il)
    \/ \E s \in Sales, T \in SaleStatuses, u \in CreatorUsers : PatchSale(s, T, u)
    \/ \E s \in Sales, u \in CreatorUsers : StartDelivery(s, u)
    \/ \E r \in Slots, s \in Sales, c \in Customers, a \in Amounts, u \in CreatorUsers :
          CompleteRead(r, s, c, a, u)
    \/ \E r \in Slots : CompleteWrite(r)
    \/ \E r \in Slots : CompleteCheck(r)

SpecConc == Init /\ [][NextConc]_vars

\* --------------------------------------------------- push notifications
\* the device tokens that get registered, and the customer whose app holds them
Tokens == {"t1", "t2"}
TokenOwner(tok) == 1

\* what FCM answers for one token: sent, messaging.UnregisteredError, another error
Answers == {"ok", "unregistered", "error"}

Note(type, s, customers) == Some([type |-> type, sale |-> s, customers |-> customers])

ItemCustomers(items) == {items[i].customer_id : i \in 1..Len(items)}

\* sales/service.py SaleService.delete: the sale and, by cascade, its items and steps
delete_sale(db, s, u) ==
    IF ~SaleOwned(db, s, u) THEN Result(db, "sale_not_found")
    ELSE Result([db EXCEPT !.sales[s] = NoSale,
                           !.steps = {st \in db.steps : st.sale_id # s}], "ok")

\* router.py:123-127: every customer of the user is told the sale is open
sale_open_note(s) ==
    IF Customers # {} THEN Note("sale_open", s, Customers) ELSE Null

\* variant: is_closing does not look at the status the sale had
closed_note_for_any_closed(db, s, T) ==
    IF T = "closed" /\ ItemCustomers(db.sales[s].items) # {}
    THEN Note("sale_closed", s, ItemCustomers(db.sales[s].items))
    ELSE Null

\* router.py:178, 211-214: is_closing, and the customers of the sale's items
sale_closed_note(db, s, T) ==
    IF T = "closed" /\ db.sales[s].status # "closed"
          /\ ItemCustomers(db.sales[s].items) # {}
    THEN Note("sale_closed", s, ItemCustomers(db.sales[s].items))
    ELSE Null

\* router.py:241, 251-252
sale_deleted_note(db, s) ==
    IF ItemCustomers(db.sales[s].items) # {}
    THEN Note("sale_deleted", s, ItemCustomers(db.sales[s].items))
    ELSE Null

\* crud_delivery.py:57-58 (the customers of the existing steps) and 88-89 (the
\* sorted customers of the items, also when there is none)
delivery_started_note(db, s) ==
    IF StepsOf(db, s) # {}
    THEN Note("delivery_started", s, {st.customer_id : st \in StepsOf(db, s)})
    ELSE Note("delivery_started", s, ItemCustomers(db.sales[s].items))

\* crud_delivery.py:306, 372-374, 426
you_are_next_note(s, c) == Note("you_are_next", s, {c})
delivery_completed_note(s, c) == Note("delivery_completed", s, {c})
delivery_skipped_note(s, c) == Note("delivery_skipped", s, {c})

\* variant: the task is created before the handler's checks
ScheduledBeforeChecks(r, note) == note

\* the create_task statement comes after every raise of its handler: it is
\* reached only by a call that did not fail
Scheduled(r, note) == IF r.outcome = "ok" THEN note ELSE Null

\* the handler up to and including its commit (on an error nothing is written);
\* what it will schedule is held by the call
Handle(r, op, note) ==
    /\ push.call.note = Null
    /\ sales' = r.db.sales
    /\ steps' = r.db.steps
    /\ credit' = r.db.credit
    /\ push' = [push EXCEPT
          !.call = [op |-> op, outcome |-> r.outcome, note |-> Scheduled(r, note)]]
    /\ UNCHANGED <<recorded, last, reqs, stream>>

NotifyCreate(s, u, itemList) ==
    /\ sales[s] = NoSale
    /\ Handle(create_sale(Db, s, u, itemList), "create", sale_open_note(s))

NotifyPatch(s, T, u) ==
    Handle(patch_sale(Db, s, T, u), "patch", sale_closed_note(Db, s, T))

NotifyDelete(s, u) ==
    Handle(delete_sale(Db, s, u), "delete", sale_deleted_note(Db, s))

NotifyStart(s, u) ==
    Handle(start_delivery(Db, s, u), "start", delivery_started_note(Db, s))

NotifySetNext(s, c, u) ==
    Handle(set_next_delivery(Db, s, c, u), "selectNext", you_are_next_note(s, c))

NotifyComplete(s, c, amount, u) ==
    LET r == complete_delivery(Db, s, c, amount, u)
    IN  Handle(Result(r.db, r.outcome), "complete", delivery_completed_note(s, c))

NotifySkip(s, c, reason, u) ==
    Handle(skip_delivery(Db, s, c, reason, u), "skip", delivery_skipped_note(s, c))

\* table push_device as token -> is_active: the tokens with PushDevice.is_active
ActiveTokens(devices) == {tok \in DOMAIN devices : devices[tok]}

\* asyncio.create_task(notify_...(db, ...)), then the handler returns
ScheduleTask ==
    /\ push.call.note # Null
    /\ Cardinality(push.tasks) < MaxTasks
    /\ push' = [push EXCEPT !.tasks = @ \cup {push.call.note[1]},
                            !.call.note = Null]
    /\ UNCHANGED <<sales, steps, credit, recorded, last, reqs, stream>>

\* notifications/crud.py register_device: a push_device row is added, or the
\* existing row of the token is made active again
RegisterDevice(tok) ==
    /\ tok \notin ActiveTokens(push.devices)
    /\ push' = [push EXCEPT !.devices =
                    [k \in DOMAIN @ \cup {tok} |-> IF k = tok THEN TRUE ELSE @[k]]]
    /\ UNCHANGED <<sales, steps, credit, recorded, last, reqs, stream>>

\* variant: the lookup does not filter on is_active
DevicesActiveOrNot(devices, customers) ==
    {tok \in DOMAIN devices : TokenOwner(tok) \in customers}

\* get_devices_for_customers / get_customer_devices: the active devices
DevicesOf(devices, customers) ==
    {tok \in ActiveTokens(devices) : TokenOwner(tok) \in customers}

\* deactivate_device for each failed token: is_active = False
Deactivate(devices, failed) ==
    [k \in DOMAIN devices |-> IF k \in failed THEN FALSE ELSE devices[k]]

\* services.py send_push_notification: the tokens to deactivate
failed_tokens(tokens, configured, answer) ==
    IF tokens = {} \/ ~configured THEN {}
    ELSE {tok \in tokens : answer[tok] = "unregistered"}

\* variant: the handler awaits the notification and its error becomes the answer
OutcomeIfAwaited(outcome, raised) == IF raised THEN "internal_error" ELSE outcome

\* asyncio.create_task: an exception of the coroutine stays in its Task, which
\* nothing awaits; the answer of the call that scheduled it is what it was
OutcomeAfterTask(outcome, raised) == outcome

\* the event loop runs a scheduled notification: send_to_customer(s), with what
\* the gateway answers; raised: the coroutine ends with an exception
RunTask(task, configured, answer, raised) ==
    /\ task \in push.tasks
    /\ LET tokens == DevicesOf(push.devices, task.customers)
           failed == IF raised THEN {} ELSE failed_tokens(tokens, configured, answer)
       IN  push' = [push EXCEPT
              !.tasks = @ \ {task},
              !.devices = Deactivate(@, failed),
              !.call.outcome = OutcomeAfterTask(@, raised)]
    /\ UNCHANGED <<sales, steps, credit, recorded, last, reqs, stream>>

NextNotify ==
    \/ \E s \in Sales, u \in CreatorUsers, il \in ItemLists : NotifyCreate(s, u, il)
    \/ \E s \in Sales, T \in SaleStatuses, u \in CreatorUsers : NotifyPatch(s, T, u)
    \/ \E s \in Sales, u \in CreatorUsers : NotifyDelete(s, u)
    \/ \E s \in Sales, u \in CreatorUsers : NotifyStart(s, u)
    \/ \E s \in Sales, c \in Customers, u \in CreatorUsers : NotifySetNext(s, c, u)
    \/ \E s \in Sales, c \in Customers, a \in Amounts, u \in CreatorUsers :
            NotifyComplete(s, c, a, u)
    \/ \E s \in Sales, c \in Customers, rs \in Reasons, u \in CreatorUsers :
            NotifySkip(s, c, rs, u)
    \/ ScheduleTask
    \/ \E tok \in Tokens : RegisterDevice(tok)
    \/ \E task \in push.tasks, configured \in BOOLEAN, answer \in [Tokens -> Answers],
          raised \in BOOLEAN : RunTask(task, configured, answer, raised)

SpecNotify == Init /\ [][NextNotify]_vars

\* ------------------------------------------- customer status streams
\* public_orders/router.py: the two server-sent-event endpoints.  SpecStream
\* runs one stream's generator tick by tick while the seller's handlers change
\* the sale between the ticks.
MaxFrames == 2          \* frames a stream is followed for

\* customer_access_token.access_token of each customer; the tokens a stream is
\* requested with: customer 1's, and a string that is no row's token
AccessTokens == {"tok1", "tok2"}
TokenCustomer(token) == IF token = "tok1" THEN 1 ELSE 2
RequestTokens == {"tok1", "bogus"}
StreamKinds == {"delivery", "sales"}

\* what a call made by the generator gives: a dict, or an exception
Returns(data) == [raised |-> "none", data |-> data]
Raises(exc) == [raised |-> exc, data |-> Null]

\* validate_token: the row whose access_token is the token, or ValueError
validate_token(token) ==
    IF token \in AccessTokens THEN Returns(TokenCustomer(token))
    ELSE Raises("ValueError")

\* idx + 1 of the step among the sale's steps ordered by sequence_order
position_in_queue(rows, st) ==
    Cardinality({d \in rows : d.sequence_order < st.sequence_order}) + 1

deliveries_ahead(rows, st) ==
    Cardinality({d \in rows : /\ d.sequence_order < st.sequence_order
                              /\ d.status = "pending"})

estimated_minutes(ahead) == IF ahead > 0 THEN ahead * 5 ELSE 2

BaseResponse(status) ==
    [sale_status |-> status, customer_delivery_status |-> "pending",
     position_in_queue |-> Null, deliveries_ahead |-> Null,
     estimated_minutes |-> Null, completed_at |-> Null,
     amount_collected |-> Null, skip_reason |-> Null]

get_customer_delivery_status(db, token, s) ==
    LET access == validate_token(token)
        c == access.data
        u == CHOOSE x \in CreatorUsers : TRUE      \* access.customer.user_id
        response == BaseResponse(db.sales[s].status)
        rows == StepsOf(db, s)
    IN  IF access.raised # "none" THEN access
        ELSE IF s \notin Sales \/ ~SaleOwned(db, s, u) THEN Raises("ValueError")
        ELSE IF db.sales[s].status \notin {"in_progress", "completed"}
             THEN Returns(response)
        ELSE IF StepFor(db, s, c) = {} THEN Returns(response)
        ELSE LET st == CHOOSE x \in StepFor(db, s, c) : TRUE
                 ahead == deliveries_ahead(rows, st)
             IN  Returns(
                  CASE st.status = "completed" ->
                        [response EXCEPT !.customer_delivery_status = st.status,
                                         !.completed_at = st.completed_at,
                                         !.amount_collected = st.amount_collected]
                    [] st.status = "skipped" ->
                        [response EXCEPT !.customer_delivery_status = st.status,
                                         !.skip_reason = st.skip_reason]
                    [] st.status = "pending" ->
                        [response EXCEPT
                            !.customer_delivery_status = st.status,
                            !.position_in_queue = Some(position_in_queue(rows, st)),
                            !.deliveries_ahead = Some(ahead),
                            !.estimated_minutes = Some(estimated_minutes(ahead))]
                    [] OTHER ->
                        [response EXCEPT !.customer_delivery_status = st.status])

\* json.dumps(data, sort_keys=True): the members in the order of their keys
json_dumps(data) ==
    << <<"amount_collected", data.amount_collected>>,
       <<"completed_at", data.completed_at>>,
       <<"customer_delivery_status", data.customer_delivery_status>>,
       <<"deliveries_ahead", data.deliveries_ahead>>,
       <<"estimated_minutes", data.estimated_minutes>>,
       <<"position_in_queue", data.position_in_queue>>,
       <<"sale_status", data.sale_status>>,
       <<"skip_reason", data.skip_reason>> >>

\* f"data: {data_json}\n\n" and the frame of the except branch
DataFrame(data_json) == <<"data", data_json>>
ErrorFrame == <<"data", << <<"error", "invalid_request">> >> >>

\* the lookup a generator makes at a tick.  The sales stream calls
\* crud.get_customer_sales_statuses, a name public_orders/crud.py does not
\* define: the attribute lookup raises AttributeError before any query is made.
Lookup(kind, db, token, s) ==
    IF kind = "sales" THEN Raises("AttributeError")
    ELSE get_customer_delivery_status(db, token, s)

StreamStep(next) ==
    /\ stream' = next
    /\ UNCHANGED <<sales, steps, credit, recorded, last, reqs, push>>

\* GET /customer/{token}/sales/status-stream and
\* GET /customer/{token}/sales/{sale_id}/delivery-status/stream: the response
\* starts and the generator is at the top of its loop with last_json = None
OpenStream(kind, token, s) ==
    /\ stream.pc = "none"
    /\ StreamStep([kind |-> kind, pc |-> "poll", token |-> token, sale |-> s,
                   last_json |-> Null, connected |-> TRUE, sent |-> <<>>,
                   raised |-> "none"])

\* the client goes away
Disconnect ==
    /\ stream.pc \in {"poll", "sleep"}
    /\ stream.connected
    /\ StreamStep([stream EXCEPT !.connected = FALSE])

\* the except clause of the loop catches ValueError only
CaughtAny(exc) == TRUE
Caught(exc) == exc = "ValueError"

\* one iteration of `while True`, up to its sleep or to the end of the generator
Tick ==
    /\ stream.pc = "poll"
    /\ Len(stream.sent) < MaxFrames
    /\ LET got == Lookup(stream.kind, Db, stream.token, stream.sale)
           data_json == json_dumps(got.data)
       IN  StreamStep(
            IF ~stream.connected
            THEN [stream EXCEPT !.pc = "ended"]
            ELSE IF got.raised # "none"
            THEN IF Caught(got.raised)
                 THEN [stream EXCEPT !.pc = "ended",
                                     !.sent = Append(@, ErrorFrame)]
                 ELSE [stream EXCEPT !.pc = "ended", !.raised = got.raised]
            ELSE IF Some(data_json) # stream.last_json
            THEN [stream EXCEPT !.pc = "sleep", !.last_json = Some(data_json),
                                !.sent = Append(@, DataFrame(data_json))]
            ELSE [stream EXCEPT !.pc = "sleep"])

\* await asyncio.sleep(3) returns
Wake ==
    /\ stream.pc = "sleep"
    /\ StreamStep([stream EXCEPT !.pc = "poll"])

\* a seller's request handled while the stream runs: its transaction commits
\* (or is rolled back) between two steps of the generator
Store(r) ==
    /\ sales' = r.db.sales
    /\ steps' = r.db.steps
    /\ credit' = r.db.credit
    /\ UNCHANGED <<recorded, last, reqs, push, stream>>

SaleCreated(s, u, itemList) ==
    /\ sales[s] = NoSale
    /\ Store(create_sale(Db, s, u, itemList))

SalePatched(s, T, u) == Store(patch_sale(Db, s, T, u))

\* DELETE /sales/{sale_id}
SaleDeleted(s, u) == Store(delete_sale(Db, s, u))

DeliveryStarted(s, u) == Store(start_delivery(Db, s, u))

DeliveryCompleted(s, c, amount, u) == Store(complete_delivery(Db, s, c, amount, u))

DeliverySkipped(s, c, reason, u) == Store(skip_delivery(Db, s, c, reason, u))

NextStream ==
    \/ \E s \in Sales, u \in CreatorUsers, il \in ItemLists : SaleCreated(s, u, il)
    \/ \E s \in Sales, T \in SaleStatuses, u \in CreatorUsers : SalePatched(s, T, u)
    \/ \E s \in Sales, u \in CreatorUsers : SaleDeleted(s, u)
    \/ \E s \in Sales, u \in CreatorUsers : DeliveryStarted(s, u)
    \/ \E s \in Sales, c \in Customers, a \in Amounts, u \in CreatorUsers :
            DeliveryCompleted(s, c, a, u)
    \/ \E s \in Sales, c \in Customers, rs \in Reasons, u \in CreatorUsers :
            DeliverySkipped(s, c, rs, u)
    \/ \E kind \in StreamKinds, token \in RequestTokens, s \in Sales :
            OpenStream(kind, token, s)
    \/ Disconnect
    \/ Tick
    \/ Wake

SpecStream == Init /\ [][NextStream]_vars

\* ------------------------------------------------- customer order submission
\* public_orders: PUT /customer/{token}/sales/{sale_id}/order.  SpecOrders runs
\* it among the seller's lifecycle and delivery handlers.
Products == {1}                         \* the rows of table product
SellPrice(p) == 1                       \* product.sell_price
OrderItemInput(p, q) == [product_id |-> p, quantity |-> q]

\* the UpdateOrderRequest.items payloads: a quantity may be 0 or less, a
\* product_id may name no product
Orders ==
    { <<>>,
      << OrderItemInput(1, 2) >>,
      << OrderItemInput(1, 0) >>,
      << OrderItemInput(1, 1), OrderItemInput(2, 1) >> }

\* variant: orders are taken until the delivery starts
OpenUntilStarted(status) == status \in {"draft", "closed"}

\* if sale.status != "draft": raise ValueError
OrderOpen(status) == status = "draft"

\* the SaleItem rows added for the payload, up to the first unknown product
RECURSIVE NewItems(_, _)
NewItems(c, order) ==
    IF order = <<>> THEN [raised |-> "none", rows |-> <<>>]
    ELSE LET item == Head(order)
             rest == NewItems(c, Tail(order))
         IN  IF item.quantity <= 0 THEN rest
             ELSE IF item.product_id \notin Products
                  THEN [raised |-> "ValueError", rows |-> <<>>]
             ELSE [rest EXCEPT
                     !.rows = <<Item(c, SellPrice(item.product_id), item.quantity)>> \o @]

\* delete(SaleItem).where(sale_id, customer_id)
WithoutCustomer(items, c) == SelectSeq(items, LAMBDA it : it.customer_id # c)

update_customer_order(db, token, s, order) ==
    LET access == validate_token(token)
        c == access.data
        u == CHOOSE x \in CreatorUsers : TRUE      \* access.customer.user_id
        added == NewItems(c, order)
    IN  IF access.raised # "none" THEN Result(db, "invalid_token")
        ELSE IF ~SaleOwned(db, s, u) THEN Result(db, "sale_not_found")
        ELSE IF ~OrderOpen(db.sales[s].status) THEN Result(db, "sale_closed")
        ELSE IF added.raised # "none" THEN Result(db, "product_not_found")
        ELSE Result([db EXCEPT !.sales[s].items =
                        WithoutCustomer(@, c) \o added.rows], "ok")

\* PUT /customer/{token}/sales/{sale_id}/order
UpdateOrder(token, s, order) ==
    /\ Respond(update_customer_order(Db, token, s, order), "order", <<s, token>>)
    /\ UNCHANGED recorded

NextOrders ==
    \/ \E s \in Sales, u \in CreatorUsers, il \in ItemLists : CreateSale(s, u, il)
    \/ \E s \in Sales, T \in SaleStatuses, u \in CreatorUsers : PatchSale(s, T, u)
    \/ \E s \in Sales, u \in CreatorUsers : StartDelivery(s, u)
    \/ \E s \in Sales, c \in Customers, rs \in Reasons, u \in CreatorUsers :
            SkipDelivery(s, c, rs, u)
    \/ \E token \in RequestTokens, s \in Sales, order \in Orders :
            UpdateOrder(token, s, order)

SpecOrders == Init /\ [][NextOrders]_vars

\* ------------------------------------------------ patch of status and date
\* PATCH /sales/{sale_id} with both fields of SalePatch.  "none" stands for a
\* field the payload leaves out.
DateInputs == {"none", "", "2024-12-25", "25/12/2024"}

\* datetime.date.fromisoformat: the date of a YYYY-MM-DD string, ValueError
\* for any other string
fromisoformat(d) ==
    IF d = "2024-12-25" THEN Returns(<<2024, 12, 25>>) ELSE Raises("ValueError")

\* variant: the session is committed when the request fails
CommitOnError(db, staged) == staged

\* get_db closes the session of a request that raised: what the handler had
\* set on its objects is dropped
CloseOnError(db, staged) == db

patch_sale_fields(db, s, T, d, u) ==
    IF ~SaleOwned(db, s, u) THEN Result(db, "sale_not_found")
    ELSE IF T # "none" /\ TransitionRejected(db.sales[s].status, T)
         THEN Result(db, "invalid_transition")
    ELSE LET staged == IF T # "none" THEN [db EXCEPT !.sales[s].status = T] ELSE db
             parsed == fromisoformat(d)
         IN  IF d \in {"none", ""} THEN Result(staged, "ok")
             ELSE IF parsed.raised # "none"
                  THEN Result(CloseOnError(db, staged), "invalid_date")
             ELSE Result([staged EXCEPT !.sales[s].date = parsed.data], "ok")

PatchSaleFields(s, T, d, u) ==
    LET r == patch_sale_fields(Db, s, T, d, u)
    IN  /\ Respond(r, "patch",
                   IF r.outcome = "invalid_date"
                   THEN <<sales[s].status, T, d>> ELSE <<>>)
        /\ UNCHANGED recorded

NextPatch ==
    \/ \E s \in Sales, u \in CreatorUsers, il \in ItemLists : CreateSale(s, u, il)
    \/ \E s \in Sales, T \in SaleStatuses \cup {"none"}, d \in DateInputs,
          u \in CreatorUsers : PatchSaleFields(s, T, d, u)
    \/ \E s \in Sales, u \in CreatorUsers : StartDelivery(s, u)
    \/ \E s \in Sales, route \in Routes, u \in CreatorUsers :
            UpdateDeliveryRoute(s, route, u)

SpecPatch == Init /\ [][NextPatch]_vars

\* ------------------------------------------------------ a second account
\* SpecTenant: next to the owner's requests, another authenticated account
\* sends the same requests for the owner's sale.
OtherUsers == {2}

\* a request of an account for a sale that exists and is another account's
ForeignCall(s, u, op, r) ==
    /\ sales[s].status # "none"
    /\ sales[s].user_id # u
    /\ Respond(r, op, <<s, u, "foreign">>)
    /\ UNCHANGED recorded

PatchByOther(s, T, u) == ForeignCall(s, u, "patch", patch_sale(Db, s, T, u))

DeleteByOther(s, u) == ForeignCall(s, u, "delete", delete_sale(Db, s, u))

StartByOther(s, u) == ForeignCall(s, u, "start", start_delivery(Db, s, u))

ReorderByOther(s, route, u) ==
    ForeignCall(s, u, "reorder", update_delivery_route(Db, s, route, u))

SelectNextByOther(s, c, u) ==
    ForeignCall(s, u, "selectNext", set_next_delivery(Db, s, c, u))

CompleteByOther(s, c, amount, u) ==
    ForeignCall(s, u, "complete", complete_delivery(Db, s, c, amount, u))

SkipByOther(s, c, reason, u) ==
    ForeignCall(s, u, "skip", skip_delivery(Db, s, c, reason, u))

ResetByOther(s, c, u) ==
    ForeignCall(s, u, "reset", reset_delivery_to_pending(Db, s, c, u))

NextTenant ==
    \/ Next
    \/ \E s \in Sales, T \in SaleStatuses, u \in OtherUsers : PatchByOther(s, T, u)
    \/ \E s \in Sales, u \in OtherUsers : DeleteByOther(s, u)
    \/ \E s \in Sales, u \in OtherUsers : StartByOther(s, u)
    \/ \E s \in Sales, route \in Routes, u \in OtherUsers : ReorderByOther(s, route, u)
    \/ \E s \in Sales, c \in Customers, u \in OtherUsers : SelectNextByOther(s, c, u)
    \/ \E s \in Sales, c \in Customers, a \in Amounts, u \in OtherUsers :
            CompleteByOther(s, c, a, u)
    \/ \E s \in Sales, c \in Customers, rs \in Reasons, u \in OtherUsers :
            SkipByOther(s, c, rs, u)
    \/ \E s \in Sales, c \in Customers, u \in OtherUsers : ResetByOther(s, c, u)

SpecTenant == Init /\ [][NextTenant]_vars

\* ------------------------------------------------ reorder, any sequences
\* SpecReorder: PATCH /sales/{sale_id}/deliveries with the sequences a started
\* sale has (1, 2) and with sequences beyond the offset the first phase adds.
FarTargets == {1, 2, 1003, 1004}
FarPairs == [customer_id : Customers, sequence : FarTargets]
FarRoutes == {<<p>> : p \in FarPairs} \cup {<<p, q>> : p, q \in FarPairs}

ReorderTo(s, route, u) ==
    /\ MaxSeq(StepsOf(Db, s)) <= MaxSeqBase
    /\ Respond(update_delivery_route(Db, s, route, u), "reorder", <<s, route>>)
    /\ UNCHANGED recorded

NextReorder ==
    \/ \E s \in Sales, u \in CreatorUsers, il \in ItemLists : CreateSale(s, u, il)
    \/ \E s \in Sales, T \in SaleStatuses, u \in CreatorUsers : PatchSale(s, T, u)
    \/ \E s \in Sales, u \in CreatorUsers : StartDelivery(s, u)
    \/ \E s \in Sales, route \in FarRoutes, u \in CreatorUsers : ReorderTo(s, route, u)

SpecReorder == Init /\ [][NextReorder]_vars

\* ------------------------------- complete, skip and reset that overlap in time
\* SpecSkipRace runs complete and skip requests, SpecResetRace also reset
\* requests, as the steps between which another request's statements can commit.

\* crud_delivery.py:394-420 of skip_delivery: the select of the sale, then
\* UPDATE ... SET status = 'skipped', is_next = False, skip_reason = reason
\* WHERE sale_id AND customer_id AND status = 'pending' RETURNING, and the commit
SkipWrite(r, s, c, reason, u) ==
    /\ reqs[r].pc = "idle"
    /\ LET pend == {st \in StepFor(Db, s, c) : st.status = "pending"}
           sent == [Idle EXCEPT !.op = "skip", !.sale = s, !.customer = c]
       IN  IF ~SaleOwned(Db, s, u)
           THEN /\ reqs' = [reqs EXCEPT ![r] =
                       [sent EXCEPT !.pc = "done", !.outcome = "sale_not_found"]]
                /\ UNCHANGED steps
           ELSE IF pend = {}
           THEN /\ reqs' = [reqs EXCEPT ![r] =
                       [sent EXCEPT !.pc = "done",
                                    !.outcome = "step_not_pending_or_missing"]]
                /\ UNCHANGED steps
           ELSE /\ steps' = (steps \ pend) \cup {SkippedStep(st, reason) : st \in pend}
                /\ reqs' = [reqs EXCEPT ![r] = [sent EXCEPT !.pc = "check"]]
    /\ UNCHANGED <<sales, credit, recorded, last, push, stream>>

\* check_and_complete_sale, crud_delivery.py:488-495: the select of the pending
\* steps of the sale
CheckSelect(r) ==
    /\ reqs[r].pc = "check"
    /\ reqs' = [reqs EXCEPT ![r] =
            IF PendingOf(Db, reqs[r].sale) = {}
            THEN [reqs[r] EXCEPT !.pc = "mark"]
            ELSE Answered(r, "ok")]
    /\ UNCHANGED <<sales, steps, credit, recorded, last, push, stream>>

\* crud_delivery.py:498-504: UPDATE sale SET status = 'completed' WHERE id = s,
\* the commit, and the response
CheckMark(r) ==
    /\ reqs[r].pc = "mark"
    /\ sales' = [sales EXCEPT ![reqs[r].sale].status = "completed"]
    /\ reqs' = [reqs EXCEPT ![r] = Answered(r, "ok")]
    /\ UNCHANGED <<steps, credit, recorded, last, push, stream>>

\* crud_delivery.py:439-457 of reset_delivery_to_pending: the selects of the sale
\* and of the step, and the read of step.credit_applied of a completed step
ResetRead(r, s, c, u) ==
    /\ reqs[r].pc = "idle"
    /\ LET sent == [Idle EXCEPT !.op = "reset", !.sale = s, !.customer = c]
           failed(outcome) == [sent EXCEPT !.pc = "done", !.outcome = outcome]
       IN  reqs' = [reqs EXCEPT ![r] =
              IF ~SaleOwned(Db, s, u) THEN failed("sale_not_found")
              ELSE IF StepFor(Db, s, c) = {} THEN failed("step_not_found")
              ELSE LET st == CHOOSE x \in StepFor(Db, s, c) : TRUE
                   IN  IF st.status = "completed" /\ ~HasCreditApplied(st)
                       THEN failed("attribute_error")
                       ELSE [sent EXCEPT !.pc = "reset_write", !.step = Some(st)]]
    /\ UNCHANGED <<sales, steps, credit, recorded, last, push, stream>>

\* the row the flush of crud_delivery.py:465-472 leaves: UPDATE sale_delivery_step
\* SET <the attributes whose value changed since the load> WHERE id = <loaded id>
FlushedReset(cur, loaded) ==
    [cur EXCEPT
        !.status = IF loaded.status # "pending" THEN "pending" ELSE cur.status,
        !.is_next = IF loaded.is_next THEN FALSE ELSE cur.is_next,
        !.completed_at = IF loaded.completed_at # Null THEN Null ELSE cur.completed_at,
        !.amount_collected =
            IF loaded.amount_collected # Null THEN Null ELSE cur.amount_collected,
        !.skip_reason = IF loaded.skip_reason # Null THEN Null ELSE cur.skip_reason]

ResetWrite(r) ==
    /\ reqs[r].pc = "reset_write"
    /\ LET cur == CHOOSE st \in StepFor(Db, reqs[r].sale, reqs[r].customer) : TRUE
       IN  steps' = (steps \ {cur}) \cup {FlushedReset(cur, reqs[r].step[1])}
    /\ reqs' = [reqs EXCEPT ![r].pc = "reopen"]
    /\ UNCHANGED <<sales, credit, recorded, last, push, stream>>

\* crud_delivery.py:475-483: UPDATE sale SET status = 'in_progress'
\* WHERE id = s AND status = 'completed', the commit, and the response
ResetReopen(r) ==
    /\ reqs[r].pc = "reopen"
    /\ sales' = ReopenSale(Db, reqs[r].sale).sales
    /\ reqs' = [reqs EXCEPT ![r] = Answered(r, "ok")]
    /\ UNCHANGED <<steps, credit, recorded, last, push, stream>>

NextSkipRace ==
    \/ \E s \in Sales, u \in CreatorUsers, il \in ItemLists : CreateSale(s, u, il)
    \/ \E s \in Sales, T \in SaleStatuses, u \in CreatorUsers : PatchSale(s, T, u)
    \/ \E s \in Sales, u \in CreatorUsers : StartDelivery(s, u)
    \/ \E r \in Slots, s \in Sales, c \in Customers, a \in Amounts, u \in CreatorUsers :
          CompleteRead(r, s, c, a, u)
    \/ \E r \in Slots : CompleteWrite(r)
    \/ \E r \in Slots, s \in Sales, c \in Customers, rs \in Reasons, u \in CreatorUsers :
          SkipWrite(r, s, c, rs, u)
    \/ \E r \in Slots : CheckSelect(r)
    \/ \E r \in Slots : CheckMark(r)

SpecSkipRace == Init /\ [][NextSkipRace]_vars

\* the seller only closes the sale by patch here: the sale gets completed by
\* check_and_complete_sale alone
NextResetRace ==
    \/ \E s \in Sales, u \in CreatorUsers, il \in ItemLists : CreateSale(s, u, il)
    \/ \E s \in Sales, u \in CreatorUsers : PatchSale(s, "closed", u)
    \/ \E s \in Sales, u \in CreatorUsers : StartDelivery(s, u)
    \/ \E r \in Slots, s \in Sales, c \in Customers, a \in Amounts, u \in CreatorUsers :
          CompleteRead(r, s, c, a, u)
    \/ \E r \in Slots : CompleteWrite(r)
    \/ \E r \in Slots, s \in Sales, c \in Customers, rs \in Reasons, u \in CreatorUsers :
          SkipWrite(r, s, c, rs, u)
    \/ \E r \in Slots : CheckSelect(r)
    \/ \E r \in Slots : CheckMark(r)
    \/ \E r \in Slots, s \in Sales, c \in Customers, u \in CreatorUsers :
          ResetRead(r, s, c, u)
    \/ \E r \in Slots : ResetWrite(r)
    \/ \E r \in Slots : ResetReopen(r)

SpecResetRace == Init /\ [][NextResetRace]_vars

\* ------------------------------------------- readers next to a reorder
\* SpecReaders: update_delivery_route as a transaction in two runs, the rows it
\* has written and not committed held in its session, and GET
\* /sales/{sale_id}/deliveries reading the committed rows in between.

\* a statement that writes step rows waits while another transaction holds
\* rows it has written and not committed
NoOpenWrite == \A o \in Slots : reqs[o].pc # "apply"

\* db.flush(), crud_delivery.py:237: the rows written so far reach the
\* database inside the open transaction; what other sessions read stays as
\* committed
FlushCommits(committed, written) == written

Flushed(committed, written) == committed

\* crud_delivery.py:190-237: the selects, the create branch with its commit, or
\* the first phase (UPDATE ... sequence_order + offset) and the flush.  A second
\* writer of the same rows waits for the first one's commit.
ReorderBegin(r, s, route, u) ==
    /\ reqs[r].pc = "idle"
    /\ NoOpenWrite
    /\ MaxSeq(StepsOf(Db, s)) <= MaxSeqBase
    /\ LET sent == [Idle EXCEPT !.op = "reorder", !.sale = s]
           failed(outcome) == [sent EXCEPT !.pc = "done", !.outcome = outcome]
           ins == InsertRoute(steps, s, route)
           offset == MaxSeq(StepsOf(Db, s)) + 1000
       IN  IF ~SaleOwned(Db, s, u)
           THEN reqs' = [reqs EXCEPT ![r] = failed("sale_not_found")] /\ UNCHANGED steps
           ELSE IF RouteLocked(Db, s)
           THEN reqs' = [reqs EXCEPT ![r] = failed("route_completed")] /\ UNCHANGED steps
           ELSE IF StepsOf(Db, s) = {}
           THEN /\ reqs' = [reqs EXCEPT ![r] =
                       failed(IF ins.ok THEN "ok" ELSE "integrity_error")]
                /\ steps' = IF ins.ok THEN ins.rows ELSE steps
           ELSE /\ reqs' = [reqs EXCEPT ![r] =
                       [sent EXCEPT !.pc = "apply",
                            !.session = Some([before |-> StepsOf(Db, s),
                                              offset |-> offset,
                                              rows |-> offset_all_sequences(steps, s, offset),
                                              route |-> route])]]
                /\ steps' = Flushed(steps, offset_all_sequences(steps, s, offset))
    /\ UNCHANGED <<sales, credit, recorded, last, push, stream>>

\* crud_delivery.py:239-251: the second phase (one UPDATE per item of the route)
\* and the commit, or the rollback when an UPDATE breaks a unique constraint
ReorderCommit(r) ==
    /\ reqs[r].pc = "apply"
    /\ LET tx == reqs[r].session[1]
           upd == ApplyRoute(tx.rows, reqs[r].sale, tx.route)
           done == UniqueOK(tx.rows) /\ upd.ok
       IN  /\ steps' = IF done THEN upd.rows ELSE steps
           /\ reqs' = [reqs EXCEPT ![r] =
                  Answered(r, IF done THEN "ok" ELSE "integrity_error")]
    /\ UNCHANGED <<sales, credit, recorded, last, push, stream>>

\* what get_delivery_route returns of each step, as far as the order goes
RouteView(rows) ==
    {[customer_id |-> st.customer_id, sequence_order |-> st.sequence_order] : st \in rows}

\* the dict built for one step, crud_delivery.py:146-177: for a pending step the
\* credit to apply is min(customer_credit, total_amount); for the others the
\* stored amounts (or 0)
RouteRow(db, s, st) ==
    LET total == OrderTotal(db.sales[s].items, st.customer_id)
        customer_credit == db.credit[st.customer_id]
        pending == st.status = "pending"
        credit_to_apply == IF pending THEN Min(customer_credit, total) ELSE 0
    IN  [customer_id |-> st.customer_id, sequence_order |-> st.sequence_order,
         status |-> st.status, is_next |-> st.is_next,
         amount_collected |-> st.amount_collected,
         total_amount |-> total, customer_credit |-> customer_credit,
         credit_to_apply |-> credit_to_apply,
         amount_to_collect |->
            IF pending THEN total - credit_to_apply
            ELSE IF st.amount_collected = Null THEN 0 ELSE st.amount_collected[1]]

\* get_delivery_route, crud_delivery.py:94-180: the committed steps of the
\* sale; the row it builds for a step reads step.credit_applied, which a loaded
\* step does not have
get_delivery_route(db, s, u) ==
    IF ~SaleOwned(db, s, u) THEN [outcome |-> "sale_not_found", route |-> {}]
    ELSE IF \E st \in StepsOf(db, s) : ~HasCreditApplied(st)
         THEN [outcome |-> "attribute_error", route |-> {}]
         ELSE [outcome |-> "ok", route |-> {RouteRow(db, s, st) : st \in StepsOf(db, s)}]

\* the steps get_customer_delivery_status loads, crud.py:253-282: the
\* customer's own step, and every step of the sale when that one is pending
loaded_deliveries(db, token, s) ==
    LET access == validate_token(token)
    IN  IF get_customer_delivery_status(db, token, s).raised # "none" THEN {}
        ELSE IF db.sales[s].status \notin {"in_progress", "completed"} THEN {}
        ELSE IF \E st \in StepFor(db, s, access.data) : st.status = "pending"
             THEN StepsOf(db, s)
             ELSE StepFor(db, s, access.data)

\* GET /{token}/sales/{sale_id}/delivery-status
GetDeliveryStatus(token, s) ==
    LET got == get_customer_delivery_status(Db, token, s)
    IN  /\ last' = Returned("status",
                       IF got.raised = "none" THEN "ok" ELSE "sale_not_found",
                       <<s, RouteView(loaded_deliveries(Db, token, s)), got.data>>)
        /\ UNCHANGED <<sales, steps, credit, recorded, reqs, push, stream>>

\* GET /sales/{sale_id}/deliveries
GetDeliveries(s, u) ==
    LET got == get_delivery_route(Db, s, u)
    IN  /\ last' = Returned("getRoute", got.outcome, <<s, RouteView(got.route)>>)
        /\ UNCHANGED <<sales, steps, credit, recorded, reqs, push, stream>>

NextReaders ==
    \/ \E s \in Sales, u \in CreatorUsers, il \in ItemLists : CreateSale(s, u, il)
    \/ \E s \in Sales, u \in CreatorUsers : PatchSale(s, "closed", u)
    \/ \E s \in Sales, u \in CreatorUsers : NoOpenWrite /\ StartDelivery(s, u)
    \/ \E r \in Slots, s \in Sales, route \in Routes, u \in CreatorUsers :
            ReorderBegin(r, s, route, u)
    \/ \E r \in Slots : ReorderCommit(r)
    \/ \E s \in Sales, u \in CreatorUsers : GetDeliveries(s, u)
    \/ \E token \in RequestTokens, s \in Sales : GetDeliveryStatus(token, s)

SpecReaders == Init /\ [][NextReaders]_vars

\* ------------------------------------------------ customer record updates
\* CustomerUpdate.credit: Optional[float] = Field(None, ge=0)
CreditInputs == {Null} \cup {Some(n) : n \in 0..MaxCredit}

\* CustomerService.update, customers/service.py:65-89: the customer of the user
\* or None; name, address and phone are rewritten and the credit is set when
\* the request carries one
update(db, c, credit_in, u) ==
    IF u \notin CreatorUsers THEN Result(db, "customer_not_found")
    ELSE Result([db EXCEPT !.credit[c] =
                     IF credit_in # Null THEN credit_in[1] ELSE @], "ok")

\* PUT /customers/{customer_id}
UpdateCustomer(c, credit_in, u) ==
    /\ Respond(update(Db, c, credit_in, u), "updateCustomer", <<c>>)
    /\ UNCHANGED recorded

NextLedger ==
    \/ \E s \in Sales, u \in CreatorUsers, il \in ItemLists : CreateSale(s, u, il)
    \/ \E s \in Sales, T \in SaleStatuses, u \in CreatorUsers : PatchSale(s, T, u)
    \/ \E s \in Sales, u \in CreatorUsers : StartDelivery(s, u)
    \/ \E s \in Sales, c \in Customers, a \in Amounts, u \in CreatorUsers :
            CompleteDelivery(s, c, a, u)
    \/ \E s \in Sales, c \in Customers, rs \in Reasons, u \in CreatorUsers :
            SkipDelivery(s, c, rs, u)
    \/ \E s \in Sales, c \in Customers, u \in CreatorUsers :
            ResetDeliveryToPending(s, c, u)
    \/ \E c \in Customers, credit_in \in CreditInputs, u \in CreatorUsers \cup OtherUsers :
            UpdateCustomer(c, credit_in, u)

SpecLedger == Init /\ [][NextLedger]_vars

\* ------------------------------------------- the 'sale closed' notification
\* SpecClosed: PATCH /sales/{sale_id} with status and date, router.py:155-221,
\* up to its create_task
NotifyPatchFields(s, T, d, u) ==
    Handle(patch_sale_fields(Db, s, T, d, u), "patch", sale_closed_note(Db, s, T))

NextClosed ==
    \/ \E s \in Sales, u \in CreatorUsers, il \in ItemLists : NotifyCreate(s, u, il)
    \/ \E s \in Sales, T \in SaleStatuses \cup {"none"}, d \in DateInputs,
          u \in CreatorUsers : NotifyPatchFields(s, T, d, u)
    \/ \E s \in Sales, u \in CreatorUsers : NotifyStart(s, u)
    \/ \E s \in Sales, u \in CreatorUsers : NotifyDelete(s, u)
    \/ ScheduleTask
    \/ \E task \in push.tasks : RunTask(task, TRUE, [tok \in Tokens |-> "ok"], FALSE)

SpecClosed == Init /\ [][NextClosed]_vars

\* ------------------------------------------------ the run of a notification
\* SpecDispatch: send_to_customers as the event loop runs it.  The lookup of the
\* devices and the sends to the gateway (messaging.send is a blocking call) run
\* without a suspension in between; each deactivate_device is awaited, so other
\* requests and other notifications run between the sends and a deactivation.

\* messaging.send is called for every token looked up, when Firebase is configured
submitted_tokens(tokens, configured) == IF configured THEN tokens ELSE {}

\* services.py:160-166: the lookup, the sends and the gateway's answers
DispatchSend(r, task, configured, answer) ==
    /\ reqs[r].pc = "idle"
    /\ task \in push.tasks
    \* the gateway answers for the tokens it is sent
    /\ \A tok \in Tokens :
          tok \notin submitted_tokens(DevicesOf(push.devices, task.customers), configured)
             => answer[tok] = "ok"
    /\ LET tokens == DevicesOf(push.devices, task.customers)
       IN  reqs' = [reqs EXCEPT ![r] =
              [Idle EXCEPT !.pc = "deactivate", !.op = "dispatch",
                   !.session = Some([submitted |-> submitted_tokens(tokens, configured),
                                     answer |-> answer,
                                     failed |-> failed_tokens(tokens, configured, answer)])]]
    /\ push' = [push EXCEPT !.tasks = @ \ {task}]
    /\ UNCHANGED <<sales, steps, credit, recorded, last, stream>>

\* services.py:169-170, crud.py:93-100: deactivate_device for one failed token
DispatchDeactivate(r, tok) ==
    /\ reqs[r].pc = "deactivate"
    /\ tok \in reqs[r].session[1].failed
    /\ push' = [push EXCEPT !.devices = Deactivate(@, {tok})]
    /\ reqs' = [reqs EXCEPT ![r].session =
                   Some([reqs[r].session[1] EXCEPT !.failed = @ \ {tok}])]
    /\ UNCHANGED <<sales, steps, credit, recorded, last, stream>>

\* services.py:172: every failed token is dealt with and the coroutine returns
DispatchReturn(r) ==
    /\ reqs[r].pc = "deactivate"
    /\ reqs[r].session[1].failed = {}
    /\ reqs' = [reqs EXCEPT ![r] = Idle]
    /\ UNCHANGED <<sales, steps, credit, recorded, last, push, stream>>

\* POST /{token}/devices, answered
DeviceRegistered(tok) ==
    /\ tok \notin ActiveTokens(push.devices)
    /\ push' = [push EXCEPT !.devices =
                    [k \in DOMAIN @ \cup {tok} |-> IF k = tok THEN TRUE ELSE @[k]]]
    /\ last' = Returned("register", "ok", <<>>)
    /\ UNCHANGED <<sales, steps, credit, recorded, reqs, stream>>

\* DELETE /{token}/devices, crud.py:52-66 unregister_device
DeviceUnregistered(tok) ==
    /\ tok \in DOMAIN push.devices
    /\ push' = [push EXCEPT !.devices = Deactivate(@, {tok})]
    /\ last' = Returned("unregister", "ok", <<>>)
    /\ UNCHANGED <<sales, steps, credit, recorded, reqs, stream>>

NextDispatch ==
    \/ \E s \in Sales, u \in CreatorUsers : NotifyCreate(s, u, << Item(1, 1, 1) >>)
    \/ \E s \in Sales, u \in CreatorUsers : NotifyDelete(s, u)
    \/ ScheduleTask
    \/ \E tok \in Tokens : DeviceRegistered(tok)
    \/ \E tok \in Tokens : DeviceUnregistered(tok)
    \/ \E r \in Slots, task \in push.tasks, configured \in BOOLEAN,
          answer \in [Tokens -> Answers] : DispatchSend(r, task, configured, answer)
    \/ \E r \in Slots, tok \in Tokens : DispatchDeactivate(r, tok)
    \/ \E r \in Slots : DispatchReturn(r)

SpecDispatch == Init /\ [][NextDispatch]_vars

\* ------------------------------------------------------ delivery progress
\* sum(d[field] for d in rows)
RECURSIVE SumOf(_, _)
SumOf(rows, field) ==
    IF rows = {} THEN 0
    ELSE LET d == CHOOSE x \in rows : TRUE
         IN  d[field] + SumOf(rows \ {d}, field)

\* sum(d["amount_collected"] or 0 for d in rows)
RECURSIVE SumCollected(_)
SumCollected(rows) ==
    IF rows = {} THEN 0
    ELSE LET d == CHOOSE x \in rows : TRUE
         IN  (IF d.amount_collected = Null THEN 0 ELSE d.amount_collected[1])
                + SumCollected(rows \ {d})

\* get_delivery_progress, crud_delivery.py:507-543: the statistics of the rows
\* get_delivery_route returns; its exception leaves this function too
get_delivery_progress(db, s, u) ==
    LET got == get_delivery_route(db, s, u)
        completed == {d \in got.route : d.status = "completed"}
        pending == {d \in got.route : d.status = "pending"}
        skipped == {d \in got.route : d.status = "skipped"}
    IN  IF got.outcome # "ok" THEN [outcome |-> got.outcome, progress |-> Null]
        ELSE [outcome |-> "ok",
              progress |-> Some(
                [total_deliveries |-> Cardinality(got.route),
                 completed_count |-> Cardinality(completed),
                 pending_count |-> Cardinality(pending),
                 skipped_count |-> Cardinality(skipped),
                 total_collected |-> SumCollected(completed),
                 \* summed over the completed rows, of which a returned
                 \* route has none
                 total_credit_applied |-> 0,
                 total_expected |-> SumOf(got.route, "total_amount"),
                 total_skipped_amount |-> SumOf(skipped, "total_amount"),
                 current_delivery |->
                    IF \E d \in pending : d.is_next
                    THEN Some((CHOOSE d \in pending : d.is_next).customer_id)
                    ELSE Null])]

\* GET /sales/{sale_id}/deliveries/progress
GetDeliveryProgress(s, u) ==
    LET got == get_delivery_progress(Db, s, u)
    IN  /\ last' = Returned("progress", got.outcome, <<s, got.progress>>)
        /\ UNCHANGED <<sales, steps, credit, recorded, reqs, push, stream>>

NextProgress ==
    \/ \E s \in Sales, u \in CreatorUsers, il \in ItemLists : CreateSale(s, u, il)
    \/ \E s \in Sales, u \in CreatorUsers : PatchSale(s, "closed", u)
    \/ \E s \in Sales, u \in CreatorUsers : StartDelivery(s, u)
    \/ \E s \in Sales, c \in Customers, u \in CreatorUsers : SetNextDelivery(s, c, u)
    \/ \E s \in Sales, c \in Customers, a \in Amounts, u \in CreatorUsers :
            CompleteDelivery(s, c, a, u)
    \/ \E s \in Sales, c \in Customers, rs \in Reasons, u \in CreatorUsers :
            SkipDelivery(s, c, rs, u)
    \/ \E s \in Sales, u \in CreatorUsers : GetDeliveryProgress(s, u)
    \/ \E s \in Sales, u \in CreatorUsers : GetDeliveries(s, u)

SpecProgress == Init /\ [][NextProgress]_vars

\* ------------------------------------- one customer's steps in two sales
\* SpecTwoSales: the seller has two sales with an order of customer 1 each, and
\* complete and reset requests for them overlap in time.
TwoSales == {1, 2}

InitTwoSales ==
    /\ sales = [s \in TwoSales |-> NoSale]
    /\ steps = {}
    /\ credit \in InitialCredits
    /\ recorded = [k \in TwoSales \X Customers |-> 0]
    /\ last = Returned("none", "ok", <<>>)
    /\ reqs = [r \in Slots |-> Idle]
    /\ push = NoPush
    /\ stream = NoStream

NextTwoSales ==
    \/ \E s \in TwoSales, u \in CreatorUsers : CreateSale(s, u, << Item(1, 1, 1) >>)
    \/ \E s \in TwoSales, u \in CreatorUsers : PatchSale(s, "closed", u)
    \/ \E s \in TwoSales, u \in CreatorUsers : StartDelivery(s, u)
    \/ \E r \in Slots, s \in TwoSales, c \in Customers, a \in Amounts,
          u \in CreatorUsers : CompleteRead(r, s, c, a, u)
    \/ \E r \in Slots : CompleteWrite(r)
    \/ \E r \in Slots : CompleteCheck(r)
    \/ \E r \in Slots, s \in TwoSales, c \in Customers, u \in CreatorUsers :
          ResetRead(r, s, c, u)
    \/ \E r \in Slots : ResetWrite(r)
    \/ \E r \in Slots : ResetReopen(r)

SpecTwoSales == InitTwoSales /\ [][NextTwoSales]_vars

\* ------------------------------------------------- the deliveries of a day
\* SpecDeliver: sales are created, closed and started, and the seller goes on
\* to complete or skip every step that is pending; no step is reset and the
\* status is not patched past closed.
ResolveStep(s, c) ==
    /\ \E st \in StepFor(Db, s, c) : st.status = "pending"
    /\ \/ \E a \in Amounts, u \in CreatorUsers : CompleteDelivery(s, c, a, u)
       \/ \E rs \in Reasons, u \in CreatorUsers : SkipDelivery(s, c, rs, u)

NextDeliver ==
    \/ \E s \in Sales, u \in CreatorUsers, il \in ItemLists : CreateSale(s, u, il)
    \/ \E s \in Sales, u \in CreatorUsers : PatchSale(s, "closed", u)
    \/ \E s \in Sales, u \in CreatorUsers : StartDelivery(s, u)
    \/ \E s \in Sales, c \in Customers, u \in CreatorUsers : SetNextDelivery(s, c, u)
    \/ \E s \in Sales, c \in Customers : ResolveStep(s, c)

SpecDeliver ==
    /\ Init
    /\ [][NextDeliver]_vars
    /\ \A s \in Sales, c \in Customers : WF_vars(ResolveStep(s, c))

\* ================================================================ claims
TheSale == CHOOSE s \in Sales : TRUE

\* the transitions the lifecycle table lists
TableTransitions ==
    { <<"draft", "closed">>, <<"closed", "draft">>,
      <<"closed", "in_progress">>, <<"in_progress", "completed">> }

\* C1: a patch(status=T) of a sale in status S succeeds iff T = S or S -> T is in
\* the table; any other patch fails with the invalid-transition error that names
\* S and T and leaves the status as it was, so no patch leaves completed.
C1_PatchFollowsTable ==
    [][\A s \in Sales, T \in SaleStatuses, u \in CreatorUsers :
          (PatchSale(s, T, u) /\ sales[s].status # "none") =>
              LET S == sales[s].status
              IN  /\ (last'.outcome = "ok") <=> (T = S \/ <<S, T>> \in TableTransitions)
                  /\ last'.outcome = "ok" => sales'[s].status = T
                  /\ last'.outcome # "ok" =>
                        /\ last'.outcome = "invalid_transition"
                        /\ last'.detail = <<S, T>>
                        /\ sales'[s].status = S
                  /\ S = "completed" => sales'[s].status = "completed"]_vars

\* a patch out of completed was asked for and rejected
C1_Witness ==
    /\ last.op = "patch" /\ last.outcome = "invalid_transition"
    /\ last.detail = <<"completed", "in_progress">>
    /\ sales[TheSale].status = "completed"

\* C2 (as claimed): in every reachable state a sale is completed iff none of its
\* delivery steps is pending.
C2_CompletedIffNoPending ==
    \A s \in Sales :
        sales[s].status # "none" =>
            ((sales[s].status = "completed") <=> (PendingOf(Db, s) = {}))

\* C2 (amended): a sale that has delivery steps, none of them pending, is
\* completed; and an operation other than patch moves a sale into completed only
\* when it leaves the sale without a pending step.
C2_ResolvedSaleIsCompleted ==
    /\ [](\A s \in Sales :
            (StepsOf(Db, s) # {} /\ PendingOf(Db, s) = {}) =>
                sales[s].status = "completed")
    /\ [][\A s \in Sales :
            (sales[s].status # "completed" /\ sales'[s].status = "completed"
                /\ last'.op # "patch") =>
                    {st \in steps' : st.sale_id = s /\ st.status = "pending"} = {}]_vars

\* the last pending step of a sale with two steps was resolved and the sale
\* completed by the auto-completion check
C2_Witness ==
    /\ last.op \in {"complete", "skip"} /\ last.outcome = "ok"
    /\ sales[TheSale].status = "completed"
    /\ Cardinality(StepsOf(Db, TheSale)) = 2
    /\ PendingOf(Db, TheSale) = {}

\* C3: each sale has at most one step with is_next = true, and that step is pending.
C3_SingleNextIsPending ==
    \A s \in Sales :
        /\ Cardinality({st \in StepsOf(Db, s) : st.is_next}) <= 1
        /\ \A st \in StepsOf(Db, s) : st.is_next => st.status = "pending"

\* C4: the sequence_order values of the steps of one sale are pairwise distinct.
C4_SequencesDistinct ==
    \A a, b \in steps :
        (a # b /\ a.sale_id = b.sale_id) => a.sequence_order # b.sequence_order

\* a partial reorder of existing steps went through: the step it names is on
\* the sequence asked for, the other one stays where the offset put it
C4_Witness ==
    /\ last.op = "reorder" /\ last.outcome = "ok"
    /\ \E a, b \in StepsOf(Db, TheSale) :
          a.sequence_order = 0 /\ b.sequence_order > 1000

\* C5: a resetToPending of a step that complete recorded credit_applied = c on
\* gives exactly c back to the customer.
C5_ResetRestoresCredit ==
    [][\A s \in Sales, c \in Customers, u \in CreatorUsers :
          (/\ ResetDeliveryToPending(s, c, u)
           /\ \E st \in StepFor(Db, s, c) : st.status = "completed") =>
              credit'[c] = credit[c] + recorded[<<s, c>>]]_vars

\* C6: of two complete requests for the same (sale, customer) that overlap in
\* time, exactly one succeeds and the other fails with "not pending".
C6_OneCompleteWins ==
    \A r1, r2 \in Slots :
        (/\ r1 # r2
         /\ reqs[r1].pc = "done" /\ reqs[r2].pc = "done"
         /\ reqs[r1].sale = reqs[r2].sale /\ reqs[r1].sale \in Sales
         /\ reqs[r1].customer = reqs[r2].customer) =>
            ~(reqs[r1].outcome = "ok" /\ reqs[r2].outcome = "ok")

\* C7: a complete for a customer with credit c and order total t records
\* credit_applied = min(c, t) and leaves the customer c - min(c, t); no credit
\* is ever negative.
C7_CreditApplied ==
    /\ [](\A c \in Customers : credit[c] >= 0)
    /\ [][\A s \in Sales, c \in Customers, a \in Amounts, u \in CreatorUsers :
            (CompleteDelivery(s, c, a, u) /\ last'.outcome = "ok") =>
                LET t == OrderTotal(sales[s].items, c)
                    m == IF credit[c] <= t THEN credit[c] ELSE t
                IN  /\ recorded'[<<s, c>>] = m
                    /\ credit'[c] = credit[c] - m]_vars

\* a complete applied part of a credit that exceeded the order total
C7_Witness ==
    /\ last.op = "complete" /\ last.outcome = "ok"
    /\ \E c \in Customers :
          /\ recorded[<<TheSale, c>>] = 1
          /\ credit[c] = 1
          /\ OrderTotal(sales[TheSale].items, c) = 1

\* C8: start on a closed sale without steps creates one pending step per distinct
\* customer of the items, numbered 1..N in ascending customer-name order, with
\* is_next on sequence 1 only, and moves the sale to in_progress.
C8_StartDerivesSteps ==
    [][\A s \in Sales, u \in CreatorUsers :
          (StartDelivery(s, u) /\ sales[s].status = "closed" /\ StepsOf(Db, s) = {}) =>
              LET new == {st \in steps' : st.sale_id = s}
                  custs == {sales[s].items[i].customer_id :
                                i \in 1..Len(sales[s].items)}
              IN  /\ last'.outcome = "ok"
                  /\ sales'[s].status = "in_progress"
                  /\ {st.customer_id : st \in new} = custs
                  /\ Cardinality(new) = Cardinality(custs)
                  /\ {st.sequence_order : st \in new} = 1..Cardinality(custs)
                  /\ \A st \in new :
                        /\ st.status = "pending"
                        /\ st.is_next <=> st.sequence_order = 1
                  /\ \A a, b \in new :
                        a.sequence_order < b.sequence_order =>
                            CustomerName(a.customer_id) <= CustomerName(b.customer_id)]_vars

\* a start derived two steps and the customer with the smaller name, which is
\* not the first of the items, is first
C8_Witness ==
    /\ last.op = "start" /\ last.outcome = "ok"
    /\ sales[TheSale].status = "in_progress"
    /\ \E a, b \in StepsOf(Db, TheSale) :
          /\ a.sequence_order = 1 /\ a.is_next /\ a.customer_id = 2
          /\ b.sequence_order = 2 /\ ~b.is_next /\ b.customer_id = 1
          /\ sales[TheSale].items[1].customer_id = 1

\* C9: start on a closed sale that has steps creates and deletes none, keeps
\* every sequence_order, sets is_next on the step of lowest sequence_order and
\* on no other, and moves the sale to in_progress.
C9_StartReusesSteps ==
    [][\A s \in Sales, u \in CreatorUsers :
          (StartDelivery(s, u) /\ sales[s].status = "closed" /\ StepsOf(Db, s) # {}) =>
              LET old == StepsOf(Db, s)
                  new == {st \in steps' : st.sale_id = s}
              IN  /\ last'.outcome = "ok"
                  /\ sales'[s].status = "in_progress"
                  /\ {[st EXCEPT !.is_next = FALSE] : st \in new}
                        = {[st EXCEPT !.is_next = FALSE] : st \in old}
                  /\ Cardinality(new) = Cardinality(old)
                  /\ \A st \in new :
                        st.is_next <=>
                            \A o \in new : st.sequence_order <= o.sequence_order]_vars

\* a start reused two pre-seeded steps; the one reorder put first is next
C9_Witness ==
    /\ last.op = "start" /\ last.outcome = "ok"
    /\ \E a, b \in StepsOf(Db, TheSale) :
          /\ a.sequence_order = 0 /\ a.is_next /\ a.customer_id = 1
          /\ b.sequence_order = 1 /\ ~b.is_next

\* C10: start on a sale that is not closed fails and changes no sale status,
\* no step and no is_next flag.
C10_StartNeedsClosed ==
    [][\A s \in Sales, u \in CreatorUsers :
          (StartDelivery(s, u) /\ sales[s].status # "closed") =>
              /\ last'.outcome = "not_closed"
              /\ UNCHANGED <<sales, steps, credit>>]_vars

\* a second start of a started sale was refused
C10_Witness ==
    /\ last.op = "start" /\ last.outcome = "not_closed"
    /\ sales[TheSale].status = "in_progress"
    /\ \E st \in StepsOf(Db, TheSale) : st.is_next

\* C11: a reorder of a completed sale fails with an error and leaves the steps
\* of the sale, and their sequence_order, as they were.
C11_ReorderNeedsOpenSale ==
    [][\A s \in Sales :
          (last'.op = "reorder" /\ sales[s].status = "completed") =>
              /\ last'.outcome = "route_completed"
              /\ UNCHANGED <<sales, steps, credit>>]_vars

\* a reorder of a completed sale that has two steps was refused
C11_Witness ==
    /\ last.op = "reorder" /\ last.outcome = "route_completed"
    /\ sales[TheSale].status = "completed"
    /\ Cardinality(StepsOf(Db, TheSale)) = 2

\* C12: selectNext succeeds only on an in_progress sale for a step that exists
\* and is pending; a missing step and a step that is not pending fail with two
\* different errors; after a success the target is the only step of the sale
\* with is_next; after a failure no is_next flag has changed.
C12_SelectNext ==
    [][\A s \in Sales, c \in Customers, u \in CreatorUsers :
          (SetNextDelivery(s, c, u) /\ sales[s].status # "none") =>
              LET target == StepFor(Db, s, c)
                  ok == last'.outcome = "ok"
              IN  /\ ok => /\ sales[s].status = "in_progress"
                           /\ target # {}
                           /\ \A st \in target : st.status = "pending"
                  /\ (sales[s].status = "in_progress" /\ target = {}) =>
                        last'.outcome = "step_not_found"
                  /\ (sales[s].status = "in_progress" /\ target # {}
                        /\ \E st \in target : st.status # "pending") =>
                        last'.outcome = "step_not_pending"
                  /\ ok => \A st \in steps' :
                              st.sale_id = s => (st.is_next <=> st.customer_id = c)
                  /\ ok => {[st EXCEPT !.is_next = FALSE] : st \in steps'}
                              = {[st EXCEPT !.is_next = FALSE] : st \in steps}
                  /\ ~ok => UNCHANGED <<sales, steps, credit>>]_vars

\* a selectNext moved the selection away from the step the start had chosen
C12_Witness ==
    /\ last.op = "selectNext" /\ last.outcome = "ok"
    /\ \E a, b \in StepsOf(Db, TheSale) :
          /\ a.sequence_order = 1 /\ a.status = "pending" /\ ~a.is_next
          /\ b.sequence_order = 2 /\ b.status = "pending" /\ b.is_next

\* C13: a complete or skip that succeeds on the last pending step of a sale
\* leaves the sale completed; one that leaves another step pending leaves the
\* sale's status as it was.
C13_AutoCompletion ==
    [][\A s \in Sales, c \in Customers, u \in CreatorUsers :
          ((\/ \E a \in Amounts : CompleteDelivery(s, c, a, u)
            \/ \E rs \in Reasons : SkipDelivery(s, c, rs, u))
           /\ last'.outcome = "ok") =>
              IF \A st \in PendingOf(Db, s) : st.customer_id = c
              THEN sales'[s].status = "completed"
              ELSE sales'[s].status = sales[s].status]_vars

\* the only step of a one-step sale in progress was skipped and the sale completed
C13_Witness ==
    /\ last.op = "skip" /\ last.outcome = "ok"
    /\ sales[TheSale].status = "completed"
    /\ Cardinality(StepsOf(Db, TheSale)) = 1
    /\ \A st \in StepsOf(Db, TheSale) : st.status = "skipped" /\ st.sequence_order = 1

\* C14: resetToPending on a completed or skipped step leaves the step pending
\* with is_next false and its completion fields cleared; a completed sale
\* becomes in_progress and a sale in another status keeps it.
C14_ResetClearsStep ==
    [][\A s \in Sales, c \in Customers, u \in CreatorUsers :
          (/\ ResetDeliveryToPending(s, c, u)
           /\ \E st \in StepFor(Db, s, c) : st.status \in {"completed", "skipped"}) =>
              /\ last'.outcome = "ok"
              /\ \E st \in steps' :
                    /\ st.sale_id = s /\ st.customer_id = c
                    /\ st.status = "pending" /\ ~st.is_next
                    /\ st.completed_at = Null /\ st.amount_collected = Null
                    /\ st.skip_reason = Null
              /\ sales'[s].status =
                    IF sales[s].status = "completed" THEN "in_progress"
                    ELSE sales[s].status]_vars

\* C15: resetToPending on a step that is already pending fails with not-found
\* and changes no step, no credit and no sale status.
C15_ResetOnlyFromResolved ==
    [][\A s \in Sales, c \in Customers, u \in CreatorUsers :
          (/\ ResetDeliveryToPending(s, c, u)
           /\ \E st \in StepFor(Db, s, c) : st.status = "pending") =>
              /\ last'.outcome = "step_not_found"
              /\ UNCHANGED <<sales, steps, credit>>]_vars

\* the state change a notification reports, as the committed store shows it
TriggerCommitted(task) ==
    LET s == task.sale
        of(c) == StepFor(Db, s, c)
    IN  CASE task.type = "sale_open" -> sales[s].status = "draft"
          [] task.type = "sale_closed" -> sales[s].status = "closed"
          [] task.type = "sale_deleted" -> sales[s] = NoSale
          [] task.type = "delivery_started" -> sales[s].status = "in_progress"
          [] task.type = "you_are_next" ->
                \A c \in task.customers : \E st \in of(c) : st.is_next
          [] task.type = "delivery_completed" ->
                \A c \in task.customers : \E st \in of(c) : st.status = "completed"
          [] task.type = "delivery_skipped" ->
                \A c \in task.customers : \E st \in of(c) : st.status = "skipped"

\* C16: a notification task is scheduled only by a call that succeeded, after
\* the state change it reports has been committed; a call that failed holds
\* and schedules no notification.
C16_NotifyAfterCommit ==
    /\ [](push.call.outcome \notin {"ok", "none"} => push.call.note = Null)
    /\ [][\A task \in push'.tasks \ push.tasks :
            /\ push.call.outcome = "ok"
            /\ push.call.note = Some(task)
            /\ TriggerCommitted(task)
            /\ UNCHANGED <<sales, steps, credit>>]_vars

\* a complete committed and its notification is scheduled
C16_Witness ==
    /\ push.call.op = "complete" /\ push.call.outcome = "ok"
    /\ push.call.note = Null
    /\ \E task \in push.tasks :
          /\ task.type = "delivery_completed"
          /\ \A c \in task.customers :
                \E st \in StepFor(Db, task.sale, c) : st.status = "completed"

\* C17: whatever the push gateway answers and however many devices the customer
\* has, the run of a notification changes neither the answer of the call that
\* scheduled it nor a sale, a step or a credit.
C17_PushNeverSurfaces ==
    [][push.tasks \ push'.tasks # {} =>
          /\ push'.call.outcome = push.call.outcome
          /\ UNCHANGED <<sales, steps, credit>>]_vars

\* a notification ran, a device was found unregistered and deactivated, and
\* the complete that scheduled it has answered ok
C17_Witness ==
    /\ push.call.op = "complete" /\ push.call.outcome = "ok"
    /\ push.call.note = Null /\ push.tasks = {}
    /\ \E tok \in DOMAIN push.devices : ~push.devices[tok]
    /\ \E tok \in DOMAIN push.devices : push.devices[tok]

\* the customer-visible snapshot a stream is about exists: its token is a row
\* of customer_access_token and, for a delivery stream, its sale is there
SnapshotExists ==
    /\ validate_token(stream.token).raised = "none"
    /\ stream.kind = "delivery" =>
          SaleOwned(Db, stream.sale, CHOOSE u \in CreatorUsers : TRUE)

\* a step that is one tick of the generator
IsTick == stream.pc = "poll" /\ stream'.pc # "poll"

\* C18: a status stream emits the snapshot at its first tick and afterwards only
\* at the ticks where the serialized snapshot differs from the last emitted one:
\* the first tick of a connected stream whose snapshot exists emits one data
\* frame, a later such tick emits the snapshot iff it differs from the last
\* frame sent, and no two consecutive frames sent are equal.
C18_EmitsFirstThenOnChange ==
    /\ [](\A i \in 1..(Len(stream.sent) - 1) : stream.sent[i] # stream.sent[i + 1])
    /\ [][(IsTick /\ stream.connected /\ SnapshotExists) =>
            LET n == Len(stream.sent)
                m == Len(stream'.sent)
            IN  /\ n = 0 => (m = 1 /\ stream'.sent[1] # ErrorFrame)
                /\ (n > 0 /\ stream.kind = "delivery") =>
                      LET frame == DataFrame(json_dumps(
                              get_customer_delivery_status(
                                  Db, stream.token, stream.sale).data))
                      IN  stream'.sent =
                              IF frame # stream.sent[n]
                              THEN Append(stream.sent, frame) ELSE stream.sent]_vars

\* C19: a status stream's loop ends in exactly two ways: seen disconnected at a
\* poll it ends without a further frame; with the client there it ends only
\* when the token or sale lookup fails, after exactly one error frame; an ended
\* stream sends no frame.
C19_EndsInTwoWays ==
    /\ [][(stream.pc # "ended" /\ stream'.pc = "ended") =>
            \/ ~stream.connected /\ stream'.sent = stream.sent
            \/ /\ stream.connected
               /\ ~SnapshotExists
               /\ stream'.sent = Append(stream.sent, ErrorFrame)]_vars
    /\ [][stream.pc = "ended" => stream'.sent = stream.sent]_vars

\* C20: a customer's order submission succeeds only while the sale is draft; for
\* a closed, in_progress or completed sale it fails and the sale's items stay as
\* they were.
C20_OrderOnlyWhileDraft ==
    [][\A s \in Sales :
          (last'.op = "order" /\ last'.detail[1] = s) =>
              /\ last'.outcome = "ok" => sales[s].status = "draft"
              /\ sales[s].status \in {"closed", "in_progress", "completed"} =>
                    /\ last'.outcome # "ok"
                    /\ sales'[s].items = sales[s].items
                    /\ UNCHANGED <<steps, credit>>]_vars

\* customer 1's order was refused while the delivery of a sale that holds items
\* of that customer is in progress
C20_Witness ==
    /\ last.op = "order"
    /\ last.outcome = "sale_closed"
    /\ last.detail[2] = "tok1"
    /\ sales[TheSale].status = "in_progress"
    /\ \E i \in 1..Len(sales[TheSale].items) :
            sales[TheSale].items[i].customer_id = 1

\* C21: selectNext, complete or skip on a step that exists but is not pending is
\* answered with a bad-request status (400), not with the not-found status (404)
\* an absent sale or step is answered with.
C21_NotPendingIsBadRequest ==
    [][(/\ last'.op \in {"selectNext", "complete", "skip"}
        /\ \E st \in StepFor(Db, last'.detail[1], last'.detail[2]) :
              st.status \in {"completed", "skipped"}
        /\ sales[last'.detail[1]].status = "in_progress")
       => (last'.outcome # "ok" /\ last'.code = 400)]_vars

\* C22: an operation that fails leaves the persisted state as it was: a patch
\* with a legal status and an unparsable date changes neither status nor date,
\* and a reorder that meets a uniqueness conflict changes no sequence_order and
\* creates no step.
C22_FailureChangesNothing ==
    [][last'.outcome # "ok" => UNCHANGED <<sales, steps, credit>>]_vars

\* a patch from closed to in_progress was refused for its date, on a sale
\* that has steps; the sale is still closed
C22_Witness ==
    /\ last.op = "patch"
    /\ last.outcome = "invalid_date"
    /\ last.detail = <<"closed", "in_progress", "25/12/2024">>
    /\ sales[TheSale].status = "closed"
    /\ sales[TheSale].date = SaleDate
    /\ StepsOf(Db, TheSale) # {}

\* C23: a sale or delivery operation an account sends for another account's
\* sale is answered not-found (404) and changes no sale, step or credit.
C23_ForeignSaleNotFound ==
    [][(Len(last'.detail) = 3 /\ last'.detail[3] = "foreign") =>
          /\ last'.outcome # "ok"
          /\ last'.code = 404
          /\ UNCHANGED <<sales, steps, credit>>]_vars

\* the route names every step of the sale once and gives them distinct sequences
CoversDistinct(rows, route) ==
    /\ {route[i].customer_id : i \in 1..Len(route)} = {st.customer_id : st \in rows}
    /\ Len(route) = Cardinality(rows)
    /\ \A i, j \in 1..Len(route) : i # j => route[i].sequence # route[j].sequence

\* C24: a reorder whose target list gives every existing step of the sale a
\* distinct sequence succeeds, no write of its two phases meeting a uniqueness
\* conflict, and leaves each step on exactly the sequence asked for.
C24_ReorderReachesTargets ==
    [][\A s \in Sales :
          (/\ last'.op = "reorder"
           /\ last'.detail[1] = s
           /\ sales[s].status \notin {"none", "completed"}
           /\ StepsOf(Db, s) # {}
           /\ CoversDistinct(StepsOf(Db, s), last'.detail[2]))
          => LET route == last'.detail[2]
             IN  /\ last'.outcome = "ok"
                 /\ \A i \in 1..Len(route) :
                       \E st \in steps' :
                          /\ st.sale_id = s
                          /\ st.customer_id = route[i].customer_id
                          /\ st.sequence_order = route[i].sequence]_vars

\* C25: of two overlapping attempts on the same pending step, at least one of
\* them a skip, exactly one succeeds; the step carries the fields of that one
\* only, and credit is deducted only when the complete is the one that succeeded.
C25_OneOfSkipAndCompleteWins ==
    \A r1, r2 \in Slots :
        (/\ r1 # r2
         /\ reqs[r1].pc = "done" /\ reqs[r2].pc = "done"
         /\ reqs[r1].op = "skip" /\ reqs[r2].op \in {"skip", "complete"}
         /\ reqs[r1].sale = reqs[r2].sale /\ reqs[r1].sale \in Sales
         /\ reqs[r1].customer = reqs[r2].customer) =>
            /\ ~(reqs[r1].outcome = "ok" /\ reqs[r2].outcome = "ok")
            /\ \A st \in StepFor(Db, reqs[r1].sale, reqs[r1].customer) :
                  /\ st.status = "skipped" =>
                        st.amount_collected = Null /\ st.completed_at = Null
                  /\ st.status = "completed" => st.skip_reason = Null
            /\ reqs[r1].outcome = "ok" => recorded[<<reqs[r1].sale, reqs[r1].customer>>] = 0

\* C26: once a complete or skip that resolved a step of a sale and a reset on a
\* step of the same sale, overlapping in any way, have both returned, the sale
\* is not completed while one of its steps is pending.
C26_NoCompletedSaleWithPending ==
    \A r1, r2 \in Slots :
        (/\ reqs[r1].pc = "done" /\ reqs[r2].pc = "done"
         /\ reqs[r1].op \in {"complete", "skip"} /\ reqs[r1].outcome = "ok"
         /\ reqs[r2].op = "reset" /\ reqs[r2].outcome = "ok"
         /\ reqs[r1].sale = reqs[r2].sale) =>
            ~(/\ sales[reqs[r1].sale].status = "completed"
              /\ PendingOf(Db, reqs[r1].sale) # {})

\* a read of the route or of a customer's delivery status that answered;
\* last'.detail[2] is what it loaded of the sale's steps
ReadsRoute ==
    /\ \/ \E s \in Sales, u \in CreatorUsers : GetDeliveries(s, u)
       \/ \E token \in RequestTokens, s \in Sales : GetDeliveryStatus(token, s)
    /\ last'.outcome = "ok"
    /\ last'.detail[2] # {}

\* the steps of the sale as the transaction of request r commits them
FinalView(r) ==
    LET tx == reqs[r].session[1]
    IN  RouteView({st \in ApplyRoute(tx.rows, reqs[r].sale, tx.route).rows :
                      st.sale_id = reqs[r].sale})

C28_OnlyLedgerChangesCredit ==
    [][\A c \in Customers :
          credit'[c] # credit[c] =>
             \/ last'.op = "complete" /\ credit'[c] < credit[c]
             \/ last'.op = "reset" /\ credit'[c] > credit[c]]_vars

\* the pairs of the route name distinct customers and distinct sequences
ConflictFree(route) ==
    \A i, j \in 1..Len(route) :
       i # j => /\ route[i].customer_id # route[j].customer_id
                /\ route[i].sequence # route[j].sequence

\* the steps the pairs of the route ask for
AskedSteps(s, route) ==
    {[sale_id |-> s, customer_id |-> route[i].customer_id,
      sequence_order |-> route[i].sequence, status |-> "pending",
      is_next |-> FALSE, completed_at |-> Null, amount_collected |-> Null,
      skip_reason |-> Null] : i \in 1..Len(route)}

\* a reorder of the caller's sale s, not completed and without steps
ReorderOfEmpty(s) ==
    /\ last'.op = "reorder"
    /\ last'.detail[1] = s
    /\ sales[s].status \notin {"none", "completed"}
    /\ StepsOf(Db, s) = {}

\* C29 (as amended): a reorder on a non-completed sale without steps, given a
\* target list whose pairs name distinct customers and distinct sequences,
\* succeeds and creates exactly one step per pair, pending, not is_next, on the
\* sequence given, and changes neither the sale nor any credit.
C29_CreatesOneStepPerPair ==
    [][\A s \in Sales :
          (ReorderOfEmpty(s) /\ ConflictFree(last'.detail[2])) =>
             /\ last'.outcome = "ok"
             /\ steps' = steps \cup AskedSteps(s, last'.detail[2])
             /\ Cardinality(steps' \ steps) = Len(last'.detail[2])
             /\ UNCHANGED <<sales, credit>>]_vars

\* two steps created by a reorder on a draft sale
C29_Witness ==
    /\ last.op = "reorder" /\ last.outcome = "ok"
    /\ Len(last.detail[2]) = 2
    /\ sales[last.detail[1]].status = "draft"
    /\ steps = AskedSteps(last.detail[1], last.detail[2])
    /\ Cardinality(steps) = 2

\* C29 (as stated): a reorder on a non-completed sale without steps creates
\* exactly one step per pair of the target list, pending, not is_next, on the
\* sequence given, and does not change the sale's status.
C29_CreatesForAnyList ==
    [][\A s \in Sales :
          ReorderOfEmpty(s) =>
             /\ Cardinality(steps' \ steps) = Len(last'.detail[2])
             /\ \A i \in 1..Len(last'.detail[2]) :
                   \E st \in steps' \ steps :
                      /\ st.customer_id = last'.detail[2][i].customer_id
                      /\ st.sequence_order = last'.detail[2][i].sequence
                      /\ st.status = "pending" /\ ~st.is_next
             /\ sales'[s].status = sales[s].status]_vars

\* C30: in every reachable state the sequence_order of every delivery step is
\* an integer >= 1, whatever target lists reorder was given.
C30_SequencePositive == \A st \in steps : st.sequence_order >= 1

\* a step that is a call of a handler (not the scheduling or the run of a task)
IsCall == push'.tasks = push.tasks /\ push'.devices = push.devices

\* the sales a step moves from another status into closed
MovedToClosed ==
    {s \in Sales : sales[s].status # "closed" /\ sales'[s].status = "closed"}

TurnedInactive == ActiveTokens(push.devices) \ ActiveTokens(push'.devices)

\* C32: a notification submits a message only to registrations that are active
\* when it looks them up, so an inactive registration gets none until it is
\* registered again; the tokens it then deactivates are exactly the submitted
\* ones the gateway answered as unregistered, a token answered with another
\* error stays as it is, and the coroutine returns only when each of the
\* unregistered ones has been deactivated.
C32_DispatchAndDeactivation ==
    [][\A r \in Slots :
          /\ (reqs[r].pc = "idle" /\ reqs'[r].pc = "deactivate") =>
                LET run == reqs'[r].session[1]
                IN  /\ run.submitted \subseteq ActiveTokens(push.devices)
                    /\ run.failed =
                          {tok \in run.submitted : run.answer[tok] = "unregistered"}
                    /\ TurnedInactive = {}
          /\ (reqs[r].pc = "deactivate" /\ reqs'[r] # reqs[r]
                 /\ reqs'[r].pc = "deactivate") =>
                /\ TurnedInactive \subseteq reqs[r].session[1].failed
                /\ \A tok \in reqs[r].session[1].failed \ reqs'[r].session[1].failed :
                      /\ reqs[r].session[1].answer[tok] = "unregistered"
                      /\ tok \notin ActiveTokens(push'.devices)
          /\ (reqs[r].pc = "deactivate" /\ reqs'[r].pc = "idle") =>
                /\ reqs[r].session[1].failed = {}
                /\ TurnedInactive = {}]_vars

\* a notification was submitted to two registrations, the gateway answered one
\* as unregistered and one with another error, and the first has been
\* deactivated while the second is still active
C32_Witness ==
    \E r \in Slots :
       /\ reqs[r].pc = "deactivate"
       /\ reqs[r].session[1].submitted = {"t1", "t2"}
       /\ reqs[r].session[1].answer["t1"] = "unregistered"
       /\ reqs[r].session[1].answer["t2"] = "error"
       /\ reqs[r].session[1].failed = {}
       /\ ActiveTokens(push.devices) = {"t2"}

\* the total of the orders of the customers of the given steps
RECURSIVE ExpectedOf(_, _)
ExpectedOf(rows, items) ==
    IF rows = {} THEN 0
    ELSE LET st == CHOOSE x \in rows : TRUE
         IN  OrderTotal(items, st.customer_id) + ExpectedOf(rows \ {st}, items)

\* what was collected at, and what credit was applied by, the given steps
RECURSIVE CollectedAt(_)
CollectedAt(rows) ==
    IF rows = {} THEN 0
    ELSE LET st == CHOOSE x \in rows : TRUE
         IN  (IF st.amount_collected = Null THEN 0 ELSE st.amount_collected[1])
                + CollectedAt(rows \ {st})

RECURSIVE AppliedAt(_)
AppliedAt(rows) ==
    IF rows = {} THEN 0
    ELSE LET st == CHOOSE x \in rows : TRUE
         IN  recorded[<<st.sale_id, st.customer_id>>] + AppliedAt(rows \ {st})

\* C33: progress of a sale of the caller returns counts per status that add up
\* to the number of steps, what was collected and the credit applied summed over
\* the completed steps, the expected total over all steps, the skipped amount
\* over the skipped steps, and as current delivery the pending step that is
\* next, or none.
C33_ProgressTotals ==
    [][\A s \in Sales :
          ((\E u \in CreatorUsers : GetDeliveryProgress(s, u))
              /\ sales[s].status # "none") =>
             /\ last'.outcome = "ok"
             /\ LET p == last'.detail[2][1]
                    rows == StepsOf(Db, s)
                    of(status) == {st \in rows : st.status = status}
                IN  /\ p.completed_count + p.pending_count + p.skipped_count
                          = Cardinality(rows)
                    /\ p.completed_count = Cardinality(of("completed"))
                    /\ p.pending_count = Cardinality(of("pending"))
                    /\ p.skipped_count = Cardinality(of("skipped"))
                    /\ p.total_collected = CollectedAt(of("completed"))
                    /\ p.total_credit_applied = AppliedAt(of("completed"))
                    /\ p.total_expected = ExpectedOf(rows, sales[s].items)
                    /\ p.total_skipped_amount = ExpectedOf(of("skipped"), sales[s].items)
                    /\ p.current_delivery =
                          IF \E st \in of("pending") : st.is_next
                          THEN Some((CHOOSE st \in of("pending") : st.is_next).customer_id)
                          ELSE Null]_vars

\* the moves of the sale lifecycle
LifecycleMoves ==
    { <<"draft", "closed">>, <<"closed", "draft">>, <<"closed", "in_progress">>,
      <<"in_progress", "completed">>, <<"completed", "in_progress">> }

\* C34: whatever the operation, the status of a sale changes only along
\* draft -> closed, closed -> draft, closed -> in_progress,
\* in_progress -> completed and completed -> in_progress; a complete or a skip
\* of a step of a draft or closed sale leaves the sale's status as it is.
C34_StatusFollowsLifecycle ==
    [][\A s \in Sales :
          (sales[s].status # "none" /\ sales'[s].status # "none"
              /\ sales'[s].status # sales[s].status) =>
             <<sales[s].status, sales'[s].status>> \in LifecycleMoves]_vars

\* C35: in a sale that is in_progress every customer with an item in the sale
\* has exactly one delivery step, and the customer of every step of the sale
\* has an item in it.
C35_StepsMatchItems ==
    \A s \in Sales :
       sales[s].status = "in_progress" =>
          /\ \A c \in ItemCustomers(sales[s].items) :
                Cardinality(StepFor(Db, s, c)) = 1
          /\ \A st \in StepsOf(Db, s) : st.customer_id \in ItemCustomers(sales[s].items)

\* the credit applied by the steps of the customer that are completed
RECURSIVE AppliedTo(_, _, _)
AppliedTo(rows, applied, c) ==
    IF rows = {} THEN 0
    ELSE LET st == CHOOSE x \in rows : TRUE
         IN  (IF st.customer_id = c /\ st.status = "completed"
                 THEN applied[<<st.sale_id, c>>] ELSE 0)
                + AppliedTo(rows \ {st}, applied, c)

\* C36: for each customer, the credit plus the credit applied by the customer's
\* completed steps is the same after every step of complete and reset requests,
\* however they interleave.
C36_CreditConserved ==
    [][\A c \in Customers :
          credit'[c] + AppliedTo(steps', recorded', c)
             = credit[c] + AppliedTo(steps, recorded, c)]_vars

\* C37: when every pending step is in the end completed or skipped and none is
\* reset, a sale that start has moved to in_progress becomes completed, also
\* a sale started without items.
C37_StartedSaleCompletes ==
    \A s \in Sales :
       (sales[s].status = "in_progress") ~> (sales[s].status = "completed")

\* the customers the pairs of the route name
NamedIn(route) == {route[i].customer_id : i \in 1..Len(route)}

\* C38: a reorder on a sale that has steps neither creates nor deletes a step
\* and changes the sequence_order of no step but those its target list names: a
\* step of a customer the list does not name is after the reorder what it
\* was before.
C38_ReorderTouchesOnlyNamed ==
    [][\A s \in Sales :
          (/\ last'.op = "reorder"
           /\ last'.detail[1] = s
           /\ StepsOf(Db, s) # {}) =>
             /\ Cardinality(steps') = Cardinality(steps)
             /\ {<<st.sale_id, st.customer_id>> : st \in steps'}
                   = {<<st.sale_id, st.customer_id>> : st \in steps}
             /\ \A st \in steps :
                   st.customer_id \notin NamedIn(last'.detail[2]) => st \in steps']_vars

\* C39: get-route on a sale with a pending step answers with a row for that
\* step whose credit_to_apply is the credit_applied a complete of the step run
\* right after it records, and whose amount_to_collect is the order total less
\* that credit_applied.
C39_RouteShowsWhatCompleteApplies ==
    [][\A s \in Sales, u \in CreatorUsers :
          (GetDeliveries(s, u) /\ SaleOwned(Db, s, u) /\ PendingOf(Db, s) # {}) =>
             /\ last'.outcome = "ok"
             /\ \A st \in PendingOf(Db, s) :
                   LET done == complete_delivery(Db, s, st.customer_id, 0, u)
                   IN  \E row \in get_delivery_route(Db, s, u).route :
                          /\ row.customer_id = st.customer_id
                          /\ row.credit_to_apply = done.credit_applied
                          /\ row.amount_to_collect =
                                OrderTotal(sales[s].items, st.customer_id)
                                   - done.credit_applied]_vars

====
